---- MODULE Spec2Model ----
(***************************************************************************)
(* Model of the text humanization subsystem of ClearifyBackend             *)
(* (src/app/utils/humanizer.py): TextAnalyzer, ModificationEngine,         *)
(* Humanizer and HumanizerEvaluator.                                       *)
(*                                                                         *)
(* A Python str is a sequence of one-character strings.  A float is an    *)
(* exact rational [n, d] (d > 0) or an integer number of millionths, as   *)
(* noted where it is used.  The module-level random generator is a small  *)
(* linear congruential generator: a deterministic function of its seed.   *)
(***************************************************************************)
EXTENDS Integers, Sequences, FiniteSets, TLC

(***************************************************************************)
(* Characters and character classes (str methods, re classes).            *)
(***************************************************************************)
LowerLetters ==
  <<"a","b","c","d","e","f","g","h","i","j","k","l","m",
    "n","o","p","q","r","s","t","u","v","w","x","y","z">>

UpperLetters ==
  <<"A","B","C","D","E","F","G","H","I","J","K","L","M",
    "N","O","P","Q","R","S","T","U","V","W","X","Y","Z">>

LowerSet == {LowerLetters[i] : i \in 1..26}

UpperSet == {UpperLetters[i] : i \in 1..26}

DigitSet == {"0","1","2","3","4","5","6","7","8","9"}

\* str.isspace / the class \s
SpaceSet == {" ", "\n", "\t", "U+00A0"}

\* a letter outside ASCII: U+0138 is lower case (str.islower) and has no
\* upper-case form (str.upper leaves it)
UncasedLetters == {"U+0138"}

\* the class \w
WordSet == LowerSet \cup UpperSet \cup DigitSet \cup {"_"} \cup UncasedLetters

\* the class [.,!?;:] of _intelligent_cleanup and the join of line 340
PunctSet == {".", ",", "!", "?", ";", ":"}

\* the argument of str.strip at lines 157 and 325
StripSet == {".", ",", "!", "?", ";", ":", "(", ")", "[", "]", "{", "}"}

LowerMap ==
  [c \in UpperSet |-> LowerLetters[CHOOSE i \in 1..26 : UpperLetters[i] = c]]

UpperMap ==
  [c \in LowerSet |-> UpperLetters[CHOOSE i \in 1..26 : LowerLetters[i] = c]]

\* str.lower and str.upper on one character
ToLower(c) == IF c \in UpperSet THEN LowerMap[c] ELSE c

ToUpper(c) == IF c \in LowerSet THEN UpperMap[c] ELSE c

IsSpace(c) == c \in SpaceSet

IsUpper(c) == c \in UpperSet

IsLower(c) == c \in LowerSet \/ c \in UncasedLetters

IsAlpha(c) == c \in LowerSet \/ c \in UpperSet \/ c \in UncasedLetters

IsWordChar(c) == c \in WordSet

(***************************************************************************)
(* str methods.                                                            *)
(***************************************************************************)
Lower(s) == [i \in 1..Len(s) |-> ToLower(s[i])]

\* s[a:b] with 0-based offsets, 0 <= a <= b <= len(s)
Slice(s, a, b) == SubSeq(s, a + 1, b)

RECURSIVE LStripLen(_, _, _)
\* number of leading characters of s, from offset i, that lie in cs
LStripLen(s, cs, i) ==
  IF i < Len(s) /\ s[i + 1] \in cs THEN LStripLen(s, cs, i + 1) ELSE i

RECURSIVE RStripLen(_, _, _)
\* offset after the last character of s[:j] that does not lie in cs
RStripLen(s, cs, j) ==
  IF j > 0 /\ s[j] \in cs THEN RStripLen(s, cs, j - 1) ELSE j

\* str.strip(chars)
StripChars(s, cs) ==
  LET a == LStripLen(s, cs, 0)
      b == RStripLen(s, cs, Len(s))
  IN IF a >= b THEN <<>> ELSE Slice(s, a, b)

\* str.strip()
Strip(s) == StripChars(s, SpaceSet)

RECURSIVE SplitFrom(_, _)
\* str.split(): the maximal runs of non-whitespace, from offset i
SplitFrom(s, i) ==
  LET a == LStripLen(s, SpaceSet, i)
      b == CHOOSE j \in a..Len(s) :
             /\ \A k \in (a + 1)..j : s[k] \notin SpaceSet
             /\ (j = Len(s) \/ s[j + 1] \in SpaceSet)
  IN IF a >= Len(s) THEN <<>> ELSE <<Slice(s, a, b)>> \o SplitFrom(s, b)

Split(s) == SplitFrom(s, 0)

RECURSIVE Join(_, _)
\* sep.join(parts)
Join(parts, sep) ==
  IF parts = <<>> THEN <<>>
  ELSE IF Len(parts) = 1 THEN parts[1]
  ELSE parts[1] \o sep \o Join(Tail(parts), sep)

\* str.startswith
StartsWith(s, p) == Len(s) >= Len(p) /\ SubSeq(s, 1, Len(p)) = p

\* str.endswith with a tuple of one-character suffixes
EndsWithAny(s, cs) == Len(s) > 0 /\ s[Len(s)] \in cs

\* str.capitalize: first character upper, the rest lower
Capitalize(s) ==
  [i \in 1..Len(s) |-> IF i = 1 THEN ToUpper(s[i]) ELSE ToLower(s[i])]

\* s[0].upper() + s[1:]
UpperFirst(s) == [i \in 1..Len(s) |-> IF i = 1 THEN ToUpper(s[i]) ELSE s[i]]

\* s[0].lower() + s[1:]
LowerFirst(s) == [i \in 1..Len(s) |-> IF i = 1 THEN ToLower(s[i]) ELSE s[i]]

\* a local name: F applied to the value of v, computed once
Bind(v, F(_)) == CASE v = v -> F(v)

\* the least element of a non-empty set of integers
Minimum(S) == CHOOSE x \in S : \A y \in S : x <= y

RECURSIVE CountFrom(_, _, _)
\* str.count: the non-overlapping occurrences of p in s from offset i
CountFrom(s, p, i) ==
  LET starts == {j \in i..(Len(s) - Len(p)) : Slice(s, j, j + Len(p)) = p}
  IN IF starts = {} THEN 0
     ELSE 1 + CountFrom(s, p, Minimum(starts) + Len(p))

(***************************************************************************)
(* Regular expressions (module re).  A pattern is a sequence of atoms:     *)
(*   lit  : a literal string                                               *)
(*   set  : a character class repeated lo..hi times, greedy                *)
(*   wb   : \b                                                             *)
(*   mark : the opening or closing parenthesis of a capture group          *)
(*   alt  : an ordered choice between sub-patterns                         *)
(* Matching is leftmost, greedy and backtracking, as in re.                *)
(***************************************************************************)
\* the upper limit of + and *
Inf == 1000000

ASet(cs, lo, hi) ==
  [k |-> "set", cs |-> cs, lo |-> lo, hi |-> hi, alts |-> <<>>, s |-> <<>>]

AChar(c) == ASet({c}, 1, 1)

AOpt(c) == ASet({c}, 0, 1)

APlus(cs) == ASet(cs, 1, Inf)

AStar(cs) == ASet(cs, 0, Inf)

AWb == [k |-> "wb", cs |-> {}, lo |-> 0, hi |-> 0, alts |-> <<>>, s |-> <<>>]

AMark == [k |-> "mark", cs |-> {}, lo |-> 0, hi |-> 0, alts |-> <<>>, s |-> <<>>]

AAlt(alts) ==
  [k |-> "alt", cs |-> {}, lo |-> 0, hi |-> 0, alts |-> alts, s |-> <<>>]

\* a literal string, as a pattern
Lit(s) == <<[k |-> "lit", cs |-> {}, lo |-> 0, hi |-> 0, alts |-> <<>>, s |-> s]>>

NoMatch == [ok |-> FALSE, end |-> -1, marks |-> <<>>]

\* whether character c matches class cs (ic: re.IGNORECASE)
ClassHas(cs, ic, c) ==
  c \in cs \/ (ic /\ (ToLower(c) \in cs \/ ToUpper(c) \in cs))

\* whether character c matches the literal character d
CharEq(ic, c, d) == c = d \/ (ic /\ ToLower(c) = ToLower(d))

\* whether the literal s stands at offset i of t
LitAt(s, ic, t, i) ==
  /\ i + Len(s) <= Len(t)
  /\ \A j \in 1..Len(s) : CharEq(ic, t[i + j], s[j])

\* \b at offset i of t
AtWordBoundary(t, i) ==
  LET before == i > 0 /\ IsWordChar(t[i])
      after == i < Len(t) /\ IsWordChar(t[i + 1])
  IN before # after

\* how many characters from offset i match class cs, at most hi
RunLen(cs, ic, t, i, hi) ==
  LET lim == IF hi < Len(t) - i THEN hi ELSE Len(t) - i
  IN CHOOSE n \in 0..lim :
       /\ \A j \in 1..n : ClassHas(cs, ic, t[i + j])
       /\ (n = lim \/ ~ClassHas(cs, ic, t[i + n + 1]))

RECURSIVE MatchSeq(_, _, _, _)
RECURSIVE TryCounts(_, _, _, _, _, _)
RECURSIVE TryAlts(_, _, _, _, _, _)

\* re's match of pattern pat at offset i of t: [ok, end, marks]
MatchSeq(pat, ic, t, i) ==
  IF pat = <<>> THEN [ok |-> TRUE, end |-> i, marks |-> <<>>]
  ELSE LET a == Head(pat)
           rest == Tail(pat)
       IN CASE a.k = "lit" ->
                 IF LitAt(a.s, ic, t, i)
                 THEN MatchSeq(rest, ic, t, i + Len(a.s)) ELSE NoMatch
            [] a.k = "wb" ->
                 IF AtWordBoundary(t, i) THEN MatchSeq(rest, ic, t, i) ELSE NoMatch
            [] a.k = "mark" ->
                 LET r == MatchSeq(rest, ic, t, i)
                 IN IF r.ok THEN [r EXCEPT !.marks = <<i>> \o r.marks] ELSE NoMatch
            [] a.k = "alt" -> TryAlts(a.alts, 1, rest, ic, t, i)
            [] OTHER ->
                 TryCounts(a, rest, ic, t, i, RunLen(a.cs, ic, t, i, a.hi))

\* greedy repetition: n characters, then fewer
TryCounts(a, rest, ic, t, i, n) ==
  IF n < a.lo THEN NoMatch
  ELSE LET r == MatchSeq(rest, ic, t, i + n)
       IN IF r.ok THEN r ELSE TryCounts(a, rest, ic, t, i, n - 1)

\* ordered choice: the first alternative after which the rest matches
TryAlts(alts, j, rest, ic, t, i) ==
  IF j > Len(alts) THEN NoMatch
  ELSE LET r == MatchSeq(alts[j] \o rest, ic, t, i)
       IN IF r.ok THEN r ELSE TryAlts(alts, j + 1, rest, ic, t, i)

\* the non-empty match of pat at every offset of t
MatchTable(pat, ic, t) ==
  [i \in 0..(Len(t) - 1) |->
     LET m == MatchSeq(pat, ic, t, i)
     IN IF m.ok /\ m.end > i THEN m ELSE NoMatch]

\* the offsets from i on where a match starts
StartsFrom(ms, i) == {j \in DOMAIN ms : j >= i /\ ms[j].ok}

\* bool(re.search(pat, t))  (no pattern here matches the empty string)
Search(pat, ic, t) == \E i \in 0..(Len(t) - 1) : MatchSeq(pat, ic, t, i).ok

\* A replacement template is a sequence of pieces: a literal string, or
\* the text of group g.
RECURSIVE Expand(_, _, _)
Expand(repl, t, m) ==
  IF repl = <<>> THEN <<>>
  ELSE LET p == Head(repl)
       IN (IF p.g = 0 THEN p.s
           ELSE Slice(t, m.marks[2 * p.g - 1], m.marks[2 * p.g]))
          \o Expand(Tail(repl), t, m)

RLit(s) == [g |-> 0, s |-> s]

RGroup(g) == [g |-> g, s |-> <<>>]

RECURSIVE SubNFrom(_, _, _, _)
\* re.subn from offset i over the matches ms, left to right, non-overlapping:
\* [s, n]
SubNFrom(ms, repl, t, i) ==
  LET starts == StartsFrom(ms, i)
  IN IF starts = {} THEN [s |-> Slice(t, i, Len(t)), n |-> 0]
     ELSE LET j == Minimum(starts)
              r == SubNFrom(ms, repl, t, ms[j].end)
          IN [s |-> Slice(t, i, j) \o Expand(repl, t, ms[j]) \o r.s,
              n |-> r.n + 1]

\* re.subn(pat, repl, t)
SubN(pat, ic, repl, t) == SubNFrom(MatchTable(pat, ic, t), repl, t, 0)

\* re.sub(pat, repl, t)
Sub(pat, ic, repl, t) == SubN(pat, ic, repl, t).s

\* len(re.findall(pat, t))
FindAll(pat, ic, t) == SubN(pat, ic, <<>>, t).n

(***************************************************************************)
(* TextAnalyzer.                                                           *)
(***************************************************************************)
formal_indicators == {
    <<"m","o","r","e","o","v","e","r">>,
    <<"f","u","r","t","h","e","r","m","o","r","e">>,
    <<"c","o","n","s","e","q","u","e","n","t","l","y">>,
    <<"t","h","u","s">>,
    <<"t","h","e","r","e","f","o","r","e">>,
    <<"n","e","v","e","r","t","h","e","l","e","s","s">>,
    <<"n","o","t","w","i","t","h","s","t","a","n","d","i","n","g">>,
    <<"s","u","b","s","e","q","u","e","n","t","l","y">>,
    <<"a","c","c","o","r","d","i","n","g","l","y">>,
    <<"h","e","n","c","e">>,
    <<"w","h","e","r","e","i","n">>,
    <<"w","h","e","r","e","b","y">>,
    <<"h","e","n","c","e","f","o","r","t","h">> }

technical_indicators == {
    <<"a","l","g","o","r","i","t","h","m">>,
    <<"f","u","n","c","t","i","o","n">>,
    <<"p","a","r","a","m","e","t","e","r">>,
    <<"v","a","r","i","a","b","l","e">>,
    <<"i","m","p","l","e","m","e","n","t","a","t","i","o","n">>,
    <<"m","e","t","h","o","d","o","l","o","g","y">>,
    <<"f","r","a","m","e","w","o","r","k">>,
    <<"a","r","c","h","i","t","e","c","t","u","r","e">>,
    <<"p","r","o","t","o","c","o","l">>,
    <<"i","n","t","e","r","f","a","c","e">>,
    <<"o","p","t","i","m","i","z","a","t","i","o","n">>,
    <<"c","o","n","f","i","g","u","r","a","t","i","o","n">>,
    <<"i","n","i","t","i","a","l","i","z","a","t","i","o","n">>,
    <<"i","n","s","t","a","n","t","i","a","t","i","o","n">> }

casual_indicators == {
    <<"y","o","u"," ","k","n","o","w">>,
    <<"I"," ","m","e","a","n">>,
    <<"l","i","k","e">>,
    <<"b","a","s","i","c","a","l","l","y">>,
    <<"a","c","t","u","a","l","l","y">>,
    <<"h","o","n","e","s","t","l","y">>,
    <<"r","e","a","l","l","y">>,
    <<"p","r","e","t","t","y">>,
    <<"q","u","i","t","e">>,
    <<"j","u","s","t">>,
    <<"m","a","y","b","e">>,
    <<"k","i","n","d","a">>,
    <<"s","o","r","t","a">> }

\* stands for the characters U+1F600..U+1F64F, each one character of a text
EmojiSet == {"U+1F600", "U+1F64F"}

human_indicators_patterns == <<
    <<ASet({"!"}, 1, 3)>>,
    <<AChar("?")>>,
    <<ASet(EmojiSet, 1, 1)>>,
    <<AWb, AAlt(<<
      Lit(<<"I","'","m">>),
      Lit(<<"I","'","v","e">>),
      Lit(<<"I","'","l","l">>),
      Lit(<<"c","a","n","'","t">>),
      Lit(<<"w","o","n","'","t">>),
      Lit(<<"d","o","n","'","t">>) >>), AWb>>,
    <<AWb, AAlt(<<
      Lit(<<"m","y">>),
      Lit(<<"o","u","r">>),
      Lit(<<"w","e">>),
      Lit(<<"u","s">>) >>), AWb>> >>

\* r'\b(I|my|our)\b' of _is_already_human
first_person_pattern ==
  <<AWb, AAlt(<<
    Lit(<<"I">>),
    Lit(<<"m","y">>),
    Lit(<<"o","u","r">>) >>), AWb>>

\* A float that is a quotient of integers: n / d with d > 0.
Rat(n, d) == [n |-> n, d |-> d]

RatGt(r, k) == r.n > k * r.d

RatLt(r, k) == r.n < k * r.d

Min(a, b) == IF a < b THEN a ELSE b

Max(a, b) == IF a > b THEN a ELSE b

\* the lookbehinds (?<!\w\.\w.)(?<![A-Z][a-z]\.)(?<=\.|\?|\!) at offset i
SentenceEndAt(t, i) ==
  /\ i > 0
  /\ t[i] \in {".", "?", "!"}
  /\ ~(i >= 4 /\ IsWordChar(t[i - 3]) /\ t[i - 2] = "." /\ IsWordChar(t[i - 1])
       /\ t[i] # "\n")
  /\ ~(i >= 3 /\ IsUpper(t[i - 2]) /\ IsLower(t[i - 1]) /\ t[i] = ".")

RECURSIVE SplitSentencesFrom(_, _, _)
\* re.split of the sentence pattern: the pieces from offset start on;
\* greedy: the separator is \s+ (True) or one \s (False)
SplitSentencesFrom(t, start, greedy) ==
  LET seps == {i \in start..(Len(t) - 1) :
                 IsSpace(t[i + 1]) /\ SentenceEndAt(t, i)}
  IN IF seps = {} THEN <<Slice(t, start, Len(t))>>
     ELSE LET i == Minimum(seps)
              e == IF greedy THEN LStripLen(t, SpaceSet, i) ELSE i + 1
          IN <<Slice(t, start, i)>> \o SplitSentencesFrom(t, e, greedy)

\* [s.strip() for s in pieces if s.strip()]
StripNonEmpty(pieces) ==
  LET F[k \in 0..Len(pieces)] ==
        IF k = 0 THEN <<>>
        ELSE IF Strip(pieces[k]) = <<>> THEN F[k - 1]
        ELSE Append(F[k - 1], Strip(pieces[k]))
  IN F[Len(pieces)]

_split_sentences(t) == StripNonEmpty(SplitSentencesFrom(t, 0, FALSE))

\* sum(1 for x in xs if P(x))
CountIn(xs, S) == Cardinality({i \in 1..Len(xs) : xs[i] \in S})

\* _determine_tone with the technicality rule tried before the formality rule
ToneTechnicalFirst(formality, technicality, casual_count) ==
  IF RatGt(technicality, 6) THEN "technical"
  ELSE IF RatGt(formality, 7) THEN "formal"
  ELSE IF casual_count > 5 \/ RatLt(formality, 3) THEN "casual"
  ELSE IF RatGt(formality, 5) /\ RatGt(technicality, 4) THEN "professional"
  ELSE "neutral"

_determine_tone(formality, technicality, casual_count) ==
  IF RatGt(formality, 7) THEN "formal"
  ELSE IF RatGt(technicality, 6) THEN "technical"
  ELSE IF casual_count > 5 \/ RatLt(formality, 3) THEN "casual"
  ELSE IF RatGt(formality, 5) /\ RatGt(technicality, 4) THEN "professional"
  ELSE "neutral"

\* human_score with the indicator patterns counted as one combined check
CombinedScore(t, formality_score, casual_count) ==
  (IF \E p \in 1..Len(human_indicators_patterns) :
          Search(human_indicators_patterns[p], FALSE, t) THEN 1 ELSE 0)
  + (IF RatLt(formality_score, 4) THEN 1 ELSE 0)
  + (IF casual_count >= 3 THEN 1 ELSE 0)
  + (IF Search(first_person_pattern, FALSE, t) THEN 1 ELSE 0)

\* human_score of _is_already_human
human_score(t, formality_score, casual_count) ==
  Cardinality({p \in 1..Len(human_indicators_patterns) :
                 Search(human_indicators_patterns[p], FALSE, t)})
  + (IF RatLt(formality_score, 4) THEN 1 ELSE 0)
  + (IF casual_count >= 3 THEN 1 ELSE 0)
  + (IF Search(first_person_pattern, FALSE, t) THEN 1 ELSE 0)

_is_already_human(t, formality_score, casual_count) ==
  human_score(t, formality_score, casual_count) >= 3

\* words_clean of analyze
words_clean(t) ==
  LET ws == Split(t)
  IN [i \in 1..Len(ws) |-> StripChars(Lower(ws[i]), StripSet)]

\* what analyze raises at line 170 (and 173) when sentence_count is 0
AnalysisError == [raised |-> TRUE]

\* the TextAnalysis analyze returns, from the words and the number of
\* sentences of the text; floats as exact quotients
TextAnalysis(t, wc, sentence_count) ==
  LET word_count == Len(wc)
      paragraph_count == CountFrom(t, <<"\n", "\n">>, 0) + 1
      avg_sentence_length ==
        IF sentence_count > 0 THEN Rat(word_count, sentence_count) ELSE Rat(0, 1)
      unique_words == Cardinality({wc[i] : i \in 1..word_count})
      unique_word_ratio ==
        IF word_count > 0 THEN Rat(unique_words, word_count) ELSE Rat(0, 1)
      complex_words == Cardinality({i \in 1..word_count : Len(wc[i]) > 12})
      vocabulary_complexity ==
        IF word_count > 0 THEN Rat(complex_words, word_count) ELSE Rat(0, 1)
      formal_count == CountIn(wc, formal_indicators)
      casual_count == CountIn(wc, casual_indicators)
      technical_count == CountIn(wc, technical_indicators)
      \* min(10, max(0, formal/sentences*30 - casual/sentences*20))
      formality_score ==
        Rat(Min(10 * sentence_count,
                Max(0, 30 * formal_count - 20 * casual_count)),
            sentence_count)
      \* min(10, technical/sentences*40 + vocabulary_complexity*30)
      technical_score ==
        LET d == sentence_count * vocabulary_complexity.d
            n == 40 * technical_count * vocabulary_complexity.d
                 + 30 * vocabulary_complexity.n * sentence_count
        IN Rat(Min(10 * d, n), d)
      existing_colloquial ==
        Cardinality({ind \in casual_indicators :
                       Search(<<AWb>> \o Lit(ind) \o <<AWb>>, FALSE, Lower(t))})
  IN [raised |-> FALSE,
      formality_score |-> formality_score,
      technical_score |-> technical_score,
      avg_sentence_length |-> avg_sentence_length,
      vocabulary_complexity |-> vocabulary_complexity,
      target_tone |->
        _determine_tone(formality_score, technical_score, casual_count),
      paragraph_count |-> paragraph_count,
      sentence_count |-> sentence_count,
      word_count |-> word_count,
      unique_word_ratio |-> unique_word_ratio,
      is_already_human |->
        _is_already_human(t, formality_score, casual_count),
      existing_colloquial_count |-> existing_colloquial]

\* TextAnalyzer.analyze: the division of line 170 raises when there is no
\* sentence
analyze(t) ==
  Bind(Len(_split_sentences(t)), LAMBDA sentence_count :
    IF sentence_count = 0 THEN AnalysisError
    ELSE TextAnalysis(t, words_clean(t), sentence_count))

(***************************************************************************)
(* EnglishProcessor: the lexicon.                                          *)
(***************************************************************************)
\* get_synonyms: the keys in dict order and, per key, the synonym list
synonym_keys == <<
    <<"a","n","a","l","y","z","e">>,
    <<"d","e","m","o","n","s","t","r","a","t","e">>,
    <<"i","n","d","i","c","a","t","e">>,
    <<"e","s","t","a","b","l","i","s","h">>,
    <<"f","a","c","i","l","i","t","a","t","e">>,
    <<"i","m","p","l","e","m","e","n","t">>,
    <<"o","p","t","i","m","i","z","e">>,
    <<"u","t","i","l","i","z","e">>,
    <<"c","o","m","p","r","e","h","e","n","s","i","v","e">>,
    <<"s","i","g","n","i","f","i","c","a","n","t">>,
    <<"s","u","b","s","t","a","n","t","i","a","l">>,
    <<"e","f","f","i","c","i","e","n","t">>,
    <<"r","o","b","u","s","t">>,
    <<"i","n","n","o","v","a","t","i","v","e">>,
    <<"c","r","u","c","i","a","l">>,
    <<"a","d","e","q","u","a","t","e">>,
    <<"n","u","m","e","r","o","u","s">>,
    <<"m","e","t","h","o","d","o","l","o","g","y">>,
    <<"f","r","a","m","e","w","o","r","k">>,
    <<"i","m","p","l","e","m","e","n","t","a","t","i","o","n">>,
    <<"u","t","i","l","i","z","a","t","i","o","n">>,
    <<"p","a","r","a","d","i","g","m">>,
    <<"i","n","f","r","a","s","t","r","u","c","t","u","r","e">>,
    <<"d","a","t","a","s","e","t","s">>,
    <<"s","y","s","t","e","m","s">>,
    <<"s","u","b","s","e","q","u","e","n","t","l","y">>,
    <<"p","r","e","v","i","o","u","s","l","y">>,
    <<"a","p","p","r","o","x","i","m","a","t","e","l","y">>,
    <<"a","c","h","i","e","v","e">>,
    <<"r","e","q","u","i","r","e">>,
    <<"e","n","a","b","l","e">> >>

synonym_lists == <<
    <<<<"e","x","a","m","i","n","e">>, <<"l","o","o","k"," ","a","t">>, <<"s","t","u","d","y">>, <<"r","e","v","i","e","w">>>>,
    <<<<"s","h","o","w">>, <<"d","i","s","p","l","a","y">>, <<"r","e","v","e","a","l">>, <<"e","x","h","i","b","i","t">>>>,
    <<<<"s","u","g","g","e","s","t">>, <<"s","h","o","w">>, <<"p","o","i","n","t"," ","t","o">>, <<"s","i","g","n","a","l">>>>,
    <<<<"s","e","t"," ","u","p">>, <<"c","r","e","a","t","e">>, <<"b","u","i","l","d">>, <<"f","o","r","m">>>>,
    <<<<"s","i","m","p","l","i","f","y">>, <<"e","n","a","b","l","e">>, <<"h","e","l","p">>, <<"s","u","p","p","o","r","t">>>>,
    <<<<"a","p","p","l","y">>, <<"u","s","e">>, <<"c","a","r","r","y"," ","o","u","t">>, <<"d","e","p","l","o","y">>>>,
    <<<<"m","a","x","i","m","i","z","e">>, <<"i","m","p","r","o","v","e">>, <<"e","n","h","a","n","c","e">>>>,
    <<<<"u","s","e">>, <<"e","m","p","l","o","y">>, <<"a","p","p","l","y">>>>,
    <<<<"r","i","c","h">>, <<"e","x","t","e","n","s","i","v","e">>, <<"b","r","o","a","d">>, <<"w","i","d","e">>>>,
    <<<<"i","m","p","o","r","t","a","n","t">>, <<"m","a","j","o","r">>, <<"a","c","t","u","a","l">>, <<"r","e","a","l">>>>,
    <<<<"a","c","t","u","a","l">>, <<"r","e","a","l">>, <<"c","o","n","s","i","d","e","r","a","b","l","e">>, <<"m","a","j","o","r">>>>,
    <<<<"e","f","f","e","c","t","i","v","e">>, <<"p","r","o","d","u","c","t","i","v","e">>, <<"s","m","o","o","t","h">>>>,
    <<<<"s","t","r","o","n","g">>, <<"s","o","l","i","d">>, <<"p","o","w","e","r","f","u","l">>, <<"r","e","l","i","a","b","l","e">>>>,
    <<<<"c","r","e","a","t","i","v","e">>, <<"n","e","w">>, <<"f","r","e","s","h">>, <<"o","r","i","g","i","n","a","l">>>>,
    <<<<"v","i","t","a","l">>, <<"k","e","y">>, <<"e","s","s","e","n","t","i","a","l">>, <<"i","m","p","o","r","t","a","n","t">>>>,
    <<<<"s","u","f","f","i","c","i","e","n","t">>, <<"e","n","o","u","g","h">>, <<"s","u","i","t","a","b","l","e">>>>,
    <<<<"v","a","r","i","o","u","s">>, <<"m","a","n","y">>, <<"m","u","l","t","i","p","l","e">>>>,
    <<<<"m","e","t","h","o","d">>, <<"a","p","p","r","o","a","c","h">>, <<"w","a","y">>>>,
    <<<<"s","t","r","u","c","t","u","r","e">>, <<"s","y","s","t","e","m">>, <<"m","o","d","e","l">>>>,
    <<<<"a","p","p","l","i","c","a","t","i","o","n">>, <<"u","s","e">>, <<"d","e","p","l","o","y","m","e","n","t">>>>,
    <<<<"u","s","e">>, <<"u","s","a","g","e">>, <<"a","p","p","l","i","c","a","t","i","o","n">>>>,
    <<<<"s","h","i","f","t">>, <<"c","h","a","n","g","e">>, <<"m","o","d","e","l">>>>,
    <<<<"s","y","s","t","e","m">>, <<"s","t","r","u","c","t","u","r","e">>, <<"f","r","a","m","e","w","o","r","k">>>>,
    <<<<"d","a","t","a"," ","s","e","t","s">>, <<"t","r","a","i","n","i","n","g"," ","s","e","t","s">>>>,
    <<<<"m","a","c","h","i","n","e","s">>, <<"s","o","l","u","t","i","o","n","s">>, <<"t","o","o","l","s">>>>,
    <<<<"l","a","t","e","r">>, <<"t","h","e","n">>, <<"a","f","t","e","r"," ","t","h","a","t">>, <<"n","e","x","t">>>>,
    <<<<"b","e","f","o","r","e">>, <<"e","a","r","l","i","e","r">>, <<"p","r","i","o","r">>>>,
    <<<<"a","b","o","u","t">>, <<"a","r","o","u","n","d">>, <<"r","o","u","g","h","l","y">>>>,
    <<<<"r","e","a","c","h">>, <<"a","t","t","a","i","n">>, <<"g","e","t"," ","t","o">>>>,
    <<<<"n","e","e","d">>, <<"d","e","m","a","n","d">>, <<"c","a","l","l"," ","f","o","r">>>>,
    <<<<"a","l","l","o","w">>, <<"l","e","t">>, <<"p","e","r","m","i","t">>>> >>

\* word in synonyms_dict
InSynonyms(w) == \E i \in 1..Len(synonym_keys) : synonym_keys[i] = w

\* synonyms_dict[word]
SynonymsOf(w) ==
  synonym_lists[CHOOSE i \in 1..Len(synonym_keys) : synonym_keys[i] = w]

\* get_phrase_patterns: [pat, repl] in dict order; repl is the one-element
\* replacement list
phrase_patterns == <<
    [pat |-> <<AWb>> \o Lit(<<"W","h","a","t">>) \o
       <<AAlt(<<Lit(<<"'","s">>), Lit(<<" ","I","'","v","e"," ","n","o","t","i","c","e","d">>), Lit(<<" ","I"," ","n","o","t","i","c","e","d">>), <<>>>>), APlus(SpaceSet),
         AAlt(<<Lit(<<"i","n","t","e","r","e","s","t","i","n","g">>), Lit(<<"n","o","t","a","b","l","e">>), Lit(<<"c","o","o","l">>), Lit(<<"w","i","l","d">>)>>)>> \o
       Lit(<<" ","i","s">>) \o <<AWb>>,
     repl |-> <<<<>>>>],
    [pat |-> <<AWb>> \o Lit(<<"W","h","a","t"," ","I","'","v","e"," ">>) \o
       <<AAlt(<<Lit(<<"n","o","t","i","c","e","d">>), Lit(<<"f","o","u","n","d">>), Lit(<<"s","e","e","n">>)>>)>> \o Lit(<<" ","i","s">>) \o <<AWb>>,
     repl |-> <<<<>>>>],
    [pat |-> <<AWb>> \o Lit(<<"P","e","r","s","o","n","a","l","l","y">>) \o <<AOpt(","), APlus(SpaceSet)>> \o
       Lit(<<"I"," ","t","h","i","n","k">>) \o <<AWb>>,
     repl |-> <<<<>>>>],
    [pat |-> <<AWb>> \o Lit(<<"W","h","a","t"," ","m","a","t","t","e","r","s"," ","i","s">>) \o <<AWb>>,
     repl |-> <<<<>>>>],
    [pat |-> <<AWb>> \o Lit(<<"T","h","e"," ","t","h","i","n","g"," ","i","s">>) \o <<AOpt(","), AWb>>,
     repl |-> <<<<>>>>],
    [pat |-> <<AWb>> \o Lit(<<"H","e","r","e","'","s"," ","t","h","e"," ","t","h","i","n","g">>) \o <<AOpt(","), AWb>>,
     repl |-> <<<<>>>>],
    [pat |-> <<AWb>> \o Lit(<<"A","t"," ","t","h","e"," ","e","n","d"," ","o","f"," ","t","h","e"," ","d","a","y">>) \o <<AOpt(","), AWb>>,
     repl |-> <<<<>>>>],
    [pat |-> <<AWb>> \o Lit(<<"I","t"," ","i","s"," ","i","m","p","o","r","t","a","n","t"," ","t","o"," ","n","o","t","e"," ","t","h","a","t">>) \o <<AWb>>,
     repl |-> <<<<>>>>],
    [pat |-> <<AWb>> \o Lit(<<"I","t"," ","s","h","o","u","l","d"," ","b","e"," ","n","o","t","e","d"," ","t","h","a","t">>) \o <<AWb>>,
     repl |-> <<<<>>>>],
    [pat |-> <<AWb>> \o Lit(<<"I","t"," ","i","s"," ","w","o","r","t","h"," ","n","o","t","i","n","g"," ","t","h","a","t">>) \o <<AWb>>,
     repl |-> <<<<>>>>],
    [pat |-> <<AWb>> \o Lit(<<"I","t"," ","i","s"," ","e","s","s","e","n","t","i","a","l"," ","t","o">>) \o <<AWb>>,
     repl |-> <<<<>>>>],
    [pat |-> <<AWb>> \o Lit(<<"I","n"," ","c","o","n","c","l","u","s","i","o","n">>) \o <<AWb>>,
     repl |-> <<<<>>>>],
    [pat |-> <<AWb>> \o Lit(<<"I","n"," ","s","u","m","m","a","r","y">>) \o <<AWb>>,
     repl |-> <<<<>>>>],
    [pat |-> <<AWb>> \o Lit(<<"F","u","r","t","h","e","r","m","o","r","e">>) \o <<AOpt(","), AWb>>,
     repl |-> <<<<>>>>],
    [pat |-> <<AWb>> \o Lit(<<"M","o","r","e","o","v","e","r">>) \o <<AOpt(","), AWb>>,
     repl |-> <<<<>>>>],
    [pat |-> <<AWb>> \o Lit(<<"A","d","d","i","t","i","o","n","a","l","l","y">>) \o <<AOpt(","), AWb>>,
     repl |-> <<<<>>>>],
    [pat |-> <<AWb>> \o Lit(<<"C","o","n","s","e","q","u","e","n","t","l","y">>) \o <<AOpt(","), AWb>>,
     repl |-> <<<<>>>>],
    [pat |-> <<AWb>> \o Lit(<<"N","e","v","e","r","t","h","e","l","e","s","s">>) \o <<AOpt(","), AWb>>,
     repl |-> <<<<"H","o","w","e","v","e","r">>>>],
    [pat |-> <<AWb>> \o Lit(<<"N","o","t","w","i","t","h","s","t","a","n","d","i","n","g">>) \o <<AOpt(","), AWb>>,
     repl |-> <<<<>>>>],
    [pat |-> <<AWb>> \o Lit(<<"S","u","b","s","e","q","u","e","n","t","l","y">>) \o <<AOpt(","), AWb>>,
     repl |-> <<<<>>>>],
    [pat |-> <<AWb>> \o Lit(<<"C","l","e","a","r","l","y">>) \o <<AOpt(","), AWb>>,
     repl |-> <<<<>>>>],
    [pat |-> <<AWb>> \o Lit(<<"U","n","d","o","u","b","t","e","d","l","y">>) \o <<AOpt(","), AWb>>,
     repl |-> <<<<>>>>],
    [pat |-> <<AWb>> \o Lit(<<"C","e","r","t","a","i","n","l","y">>) \o <<AOpt(","), AWb>>,
     repl |-> <<<<>>>>],
    [pat |-> <<AWb>> \o Lit(<<"O","b","v","i","o","u","s","l","y">>) \o <<AOpt(","), AWb>>,
     repl |-> <<<<>>>>],
    [pat |-> <<AWb>> \o Lit(<<"A","s"," ","a","n"," ","A","I">>) \o
       <<AAlt(<<Lit(<<" ","l","a","n","g","u","a","g","e"," ","m","o","d","e","l">>), <<>>>>), AWb>>,
     repl |-> <<<<>>>>] >>

(***************************************************************************)
(* The module-level random generator.  random.seed(s) sets the state; each *)
(* random.random() and random.choice() advances it once.                   *)
(***************************************************************************)
RngNext(r) == (5 * r + 3) % 16

RECURSIVE RngAdvance(_, _)
RngAdvance(r, n) == IF n = 0 THEN r ELSE RngAdvance(RngNext(r), n - 1)

\* random.random() < p, p in millionths, on the state after the draw
DrawBelow(r, p) == r * 1000000 < p * 16

\* the index (from 1) random.choice picks in a list of n, on the state after
\* the draw
DrawIndex(r, n) == ((r * n) \div 16) + 1

(***************************************************************************)
(* ModificationEngine.                                                     *)
(***************************************************************************)
\* deque(maxlen=50)
maxlen == 50

\* deque.append on a deque with no maxlen
AppendUnbounded(dq, x) == Append(dq, x)

\* deque.append on a deque of maxlen entries
DequeAppend(dq, x) ==
  IF Len(dq) >= maxlen THEN Append(Tail(dq), x) ELSE Append(dq, x)

\* list(self.recently_used)[-5:]
LastFive(dq) == IF Len(dq) <= 5 THEN dq ELSE SubSeq(dq, Len(dq) - 4, Len(dq))

InSeq(x, s) == \E i \in 1..Len(s) : s[i] = x

\* get_config_for_tone: synonym_replacement in hundredths, the rest 0
get_config_for_tone(tone, is_already_human) ==
  [uncertainty_probability |-> 0,
   colloquial_probability |-> 0,
   sentence_variation |-> 0,
   personal_touches |-> 0,
   synonym_replacement |-> IF is_already_human THEN 12 ELSE 40,
   structure_modification |-> 0,
   max_modifications_per_sentence |-> 1]

RECURSIVE ReplacePhrasesFrom(_, _, _, _)
\* the loop of replace_ai_phrases from pattern k on: the text and the
\* generator after it (random.choice runs once per match)
ReplacePhrasesFrom(pats, k, t, r) ==
  IF k > Len(pats) THEN [text |-> t, rng |-> r]
  ELSE Bind(SubN(pats[k].pat, TRUE, <<RLit(pats[k].repl[1])>>, t),
            LAMBDA res :
              ReplacePhrasesFrom(pats, k + 1, res.s, RngAdvance(r, res.n)))

replace_ai_phrases(t, r) == ReplacePhrasesFrom(phrase_patterns, 1, t, r)

\* the patterns of restructure_nominal_phrases, in dict order
nominal_patterns == <<
    [pat |-> Lit(<<"T","h","e"," ","i","m","p","l","e","m","e","n","t","a","t","i","o","n"," ","o","f"," ">>) \o
       <<AMark, APlus(LowerSet \cup SpaceSet), AMark>>,
     repl |-> <<RGroup(1), RLit(<<" ","a","p","p","l","i","c","a","t","i","o","n">>)>>],
    [pat |-> Lit(<<"T","h","e"," ","o","p","t","i","m","i","z","a","t","i","o","n"," ","o","f"," ">>) \o
       <<AMark, APlus(LowerSet \cup SpaceSet), AMark>>,
     repl |-> <<RLit(<<"O","p","t","i","m","i","z","i","n","g"," ">>), RGroup(1)>>],
    [pat |-> Lit(<<"T","h","e"," ","d","e","v","e","l","o","p","m","e","n","t"," ","o","f"," ">>) \o
       <<AMark, APlus(LowerSet \cup SpaceSet), AMark>>,
     repl |-> <<RLit(<<"D","e","v","e","l","o","p","i","n","g"," ">>), RGroup(1)>>],
    [pat |-> Lit(<<"T","h","e"," ","e","s","t","a","b","l","i","s","h","m","e","n","t"," ","o","f"," ">>) \o
       <<AMark, APlus(LowerSet \cup SpaceSet), AMark>>,
     repl |-> <<RLit(<<"E","s","t","a","b","l","i","s","h","i","n","g"," ">>), RGroup(1)>>],
    [pat |-> Lit(<<"T","h","e"," ","i","n","t","e","g","r","a","t","i","o","n"," ","o","f"," ">>) \o
       <<AMark, APlus(LowerSet \cup SpaceSet), AMark>>,
     repl |-> <<RLit(<<"I","n","t","e","g","r","a","t","i","n","g"," ">>), RGroup(1)>>],
    [pat |-> Lit(<<"T","h","e"," ","u","t","i","l","i","z","a","t","i","o","n"," ","o","f"," ">>) \o
       <<AMark, APlus(LowerSet \cup SpaceSet), AMark>>,
     repl |-> <<RLit(<<"U","s","i","n","g"," ">>), RGroup(1)>>] >>

RECURSIVE SubAllFrom(_, _, _, _)
\* for pattern, replacement in patterns.items(): text = re.sub(...)
SubAllFrom(pats, k, ic, t) ==
  IF k > Len(pats) THEN t
  ELSE Bind(Sub(pats[k].pat, ic, pats[k].repl, t),
            LAMBDA res : SubAllFrom(pats, k + 1, ic, res))

restructure_nominal_phrases(t) == SubAllFrom(nominal_patterns, 1, FALSE, t)

\* _split_sentences_advanced
_split_sentences_advanced(t) ==
  IF Strip(t) = <<>> THEN <<>>
  ELSE StripNonEmpty(SplitSentencesFrom(t, 0, TRUE))

The_ == <<"T", "h", "e", " ">>

RECURSIVE ReduceFromSecond(_, _, _, _)
\* the loop with the strip at the second consecutive sentence
ReduceFromSecond(sentences, k, the_count, result) ==
  IF k > Len(sentences) THEN result
  ELSE LET sentence == sentences[k]
       IN IF StartsWith(sentence, The_)
          THEN IF the_count + 1 > 1
               THEN ReduceFromSecond(sentences, k + 1, 0,
                      Append(result,
                             UpperFirst(Slice(sentence, 4, Len(sentence)))))
               ELSE ReduceFromSecond(sentences, k + 1, the_count + 1,
                                     Append(result, sentence))
          ELSE ReduceFromSecond(sentences, k + 1, 0, Append(result, sentence))

RECURSIVE ReduceFrom(_, _, _, _)
\* the loop of reduce_the_repetition from sentence k on
ReduceFrom(sentences, k, the_count, result) ==
  IF k > Len(sentences) THEN result
  ELSE LET sentence == sentences[k]
       IN IF StartsWith(sentence, The_)
          THEN IF the_count + 1 > 2
               THEN LET modified == Slice(sentence, 4, Len(sentence))
                    IN IF modified # <<>>
                       THEN ReduceFrom(sentences, k + 1, 0,
                                       Append(result, UpperFirst(modified)))
                       ELSE ReduceFrom(sentences, k + 1, the_count + 1, result)
               ELSE ReduceFrom(sentences, k + 1, the_count + 1,
                               Append(result, sentence))
          ELSE ReduceFrom(sentences, k + 1, 0, Append(result, sentence))

reduce_the_repetition(t) ==
  Join(ReduceFrom(_split_sentences_advanced(t), 1, 0, <<>>), <<" ">>)

\* the patterns of add_human_imperfections, in dict order
imperfection_patterns == <<
    [pat |-> Lit(<<"t","o"," ","a","c","h","i","e","v","e"," ">>) \o <<AMark, APlus(WordSet), AMark>> \o
       Lit(<<" ","p","e","r","f","o","r","m","a","n","c","e">>),
     repl |-> <<RLit(<<"i","n"," ","t","h","e","i","r"," ","e","f","f","o","r","t","s"," ","t","o"," ","m","a","x","i","m","i","z","e"," ">>), RGroup(1)>>],
    [pat |-> Lit(<<"t","o"," ","a","c","h","i","e","v","e"," ","o","p","t","i","m","a","l">>),
     repl |-> <<RLit(<<"w","o","r","k","i","n","g"," ","t","o","w","a","r","d","s"," ","b","e","s","t">>)>>],
    [pat |-> Lit(<<"w","h","i","l","e"," ","m","a","i","n","t","a","i","n","i","n","g"," ">>) \o <<AMark, APlus(WordSet), AMark>> \o
       Lit(<<" ","s","t","a","n","d","a","r","d","s">>),
     repl |-> <<RLit(<<"a","m","i","d","s","t"," ","k","e","e","p","i","n","g"," ">>), RGroup(1), RLit(<<" ","s","t","a","n","d","a","r","d","s"," ","i","n","t","a","c","t">>)>>],
    [pat |-> <<AMark, APlus(WordSet), AMark>> \o
       Lit(<<" ","n","u","m","e","r","o","u","s"," ","i","n","d","u","s","t","r","i","e","s">>),
     repl |-> <<RGroup(1), RLit(<<" ","w","o","r","l","d"," ","o","f"," ","v","a","r","i","o","u","s"," ","i","n","d","u","s","t","r","i","e","s">>)>>],
    [pat |-> Lit(<<"f","o","r"," ","a","u","t","o","m","a","t","e","d"," ","d","e","c","i","s","i","o","n","s">>),
     repl |-> <<RLit(<<"f","o","r"," ","d","e","c","i","s","i","o","n","s"," ","m","a","d","e"," ","i","n","d","e","p","e","n","d","e","n","t","l","y">>)>>],
    [pat |-> Lit(<<"t","h","r","o","u","g","h","o","u","t"," ","t","h","e"," ">>) \o <<AMark, APlus(WordSet), AMark>> \o
       Lit(<<" ","p","r","o","c","e","s","s">>),
     repl |-> <<RLit(<<"d","u","r","i","n","g"," ">>), RGroup(1)>>] >>

RECURSIVE ImperfectionsFrom(_, _, _, _)
\* the loop of add_human_imperfections from pattern k on: each pattern gated
\* by random.random() < 0.6
ImperfectionsFrom(pats, k, t, r) ==
  IF k > Len(pats) THEN [text |-> t, rng |-> r]
  ELSE Bind(IF DrawBelow(RngNext(r), 600000)
            THEN Sub(pats[k].pat, TRUE, pats[k].repl, t) ELSE t,
            LAMBDA res : ImperfectionsFrom(pats, k + 1, res, RngNext(r)))

add_human_imperfections(t, r) ==
  ImperfectionsFrom(imperfection_patterns, 1, t, r)

\* twice the score _choose_best_synonym gives synonyms[i] (an integer)
SynonymScore2(synonyms, i, recently) ==
  LET syn == synonyms[i]
      middle_idx == Len(synonyms) \div 2
      index == (CHOOSE j \in 1..Len(synonyms) :
                  synonyms[j] = syn /\ \A h \in 1..(j - 1) : synonyms[h] # syn) - 1
      distance_from_middle ==
        IF index >= middle_idx THEN index - middle_idx ELSE middle_idx - index
  IN (30 - Len(syn))
     + (IF ~InSeq(syn, recently) THEN 20 ELSE 0)
     + 2 * (10 - distance_from_middle)

\* the four best candidates instead of three
TopFourSynonyms(synonyms, recently) ==
  LET n == Len(synonyms)
      sc == [i \in 1..n |-> SynonymScore2(synonyms, i, recently)]
      rank == [i \in 1..n |->
                Cardinality({j \in 1..n :
                               sc[j] > sc[i] \/ (sc[j] = sc[i] /\ j < i)})]
  IN [k \in 1..Min(4, n) |-> CHOOSE i \in 1..n : rank[i] = k - 1]

\* sorted(scored, key=score, reverse=True)[:3]: the indices, best first
\* (the sort is stable: equal scores keep list order)
TopSynonyms(synonyms, recently) ==
  LET n == Len(synonyms)
      sc == [i \in 1..n |-> SynonymScore2(synonyms, i, recently)]
      rank == [i \in 1..n |->
                Cardinality({j \in 1..n :
                               sc[j] > sc[i] \/ (sc[j] = sc[i] /\ j < i)})]
  IN [k \in 1..Min(3, n) |-> CHOOSE i \in 1..n : rank[i] = k - 1]

\* _choose_best_synonym: the synonym and the generator after random.choice
_choose_best_synonym(word, synonyms, formality, recently, r) ==
  Bind(TopSynonyms(synonyms, recently), LAMBDA top_syns :
    [syn |-> synonyms[top_syns[DrawIndex(RngNext(r), Len(top_syns))]],
     rng |-> RngNext(r)])

\* ''.join(c for c in word if c in '.,!?;:')
PunctuationOf(word) ==
  LET F[k \in 0..Len(word)] ==
        IF k = 0 THEN <<>>
        ELSE IF word[k] \in PunctSet THEN Append(F[k - 1], word[k])
        ELSE F[k - 1]
  IN F[Len(word)]

\* the replacement of one token: synonym, capitalized as the token, plus the
\* token's punctuation
ReplacedToken(word, synonym) ==
  (IF IsUpper(word[1]) THEN Capitalize(synonym) ELSE synonym)
  \o PunctuationOf(word)

\* a recency test that looks at the last four entries: [-4:]
RecentlyUsedLastFour(word_clean, recently) ==
  InSeq(word_clean, IF Len(recently) <= 4 THEN recently
                    ELSE SubSeq(recently, Len(recently) - 3, Len(recently)))

\* a recency test that looks at the newest entry only
RecentlyUsedLastOne(word_clean, recently) ==
  recently # <<>> /\ recently[Len(recently)] = word_clean

\* whether the token's key passes the recency test of line 328
RecentlyUsed(word_clean, recently) == InSeq(word_clean, LastFive(recently))

RECURSIVE SynonymsFrom(_, _, _, _, _, _, _)
\* the loop of replace_synonyms_contextual from token i on; p is
\* config.synonym_replacement in millionths; replaced lists the keys replaced
SynonymsFrom(words, i, p, formality_level, recently, r, replaced) ==
  IF i > Len(words)
  THEN [words |-> words, recently_used |-> recently, rng |-> r,
        replaced |-> replaced]
  ELSE Bind(StripChars(Lower(words[i]), StripSet), LAMBDA word_clean :
         IF ~InSynonyms(word_clean)
         THEN SynonymsFrom(words, i + 1, p, formality_level, recently, r,
                           replaced)
         ELSE IF ~DrawBelow(RngNext(r), p)
                 \/ RecentlyUsed(word_clean, recently)
         THEN SynonymsFrom(words, i + 1, p, formality_level, recently,
                           RngNext(r), replaced)
         ELSE Bind(_choose_best_synonym(word_clean, SynonymsOf(word_clean),
                                        formality_level, recently, RngNext(r)),
                   LAMBDA c :
                SynonymsFrom([words EXCEPT ![i] = ReplacedToken(words[i], c.syn)],
                             i + 1, p, formality_level,
                             DequeAppend(recently, word_clean), c.rng,
                             Append(replaced, word_clean))))

\* replace_synonyms_contextual: the text, the deque and the generator after
\* it, with the list words as the loop left it
replace_synonyms_contextual(t, config, formality_level, recently, r) ==
  Bind(SynonymsFrom(Split(t), 1, config.synonym_replacement,
                    formality_level, recently, r, <<>>),
       LAMBDA res : [text |-> Join(res.words, <<" ">>),
                     recently_used |-> res.recently_used,
                     rng |-> res.rng,
                     words |-> res.words,
                     replaced |-> res.replaced])

(***************************************************************************)
(* Humanizer._intelligent_cleanup.                                         *)
(***************************************************************************)
\* the class [—–‒―-]: each code point one character
DashSet == {"-", "U+2012", "U+2013", "U+2014", "U+2015"}

compound_words == <<
    <<"d","e","c","i","s","i","o","n","-","m","a","k","i","n","g">>,
    <<"w","e","l","l","-","b","e","i","n","g">>,
    <<"l","o","n","g","-","t","e","r","m">>,
    <<"r","e","a","l","-","t","i","m","e">>,
    <<"s","h","o","r","t","-","t","e","r","m">>,
    <<"h","i","g","h","-","q","u","a","l","i","t","y">>,
    <<"l","o","w","-","c","o","s","t">>,
    <<"f","u","l","l","-","t","i","m","e">>,
    <<"p","a","r","t","-","t","i","m","e">>,
    <<"s","t","a","t","e","-","o","f","-","t","h","e","-","a","r","t">>,
    <<"u","p","-","t","o","-","d","a","t","e">> >>

Hyphen == <<"-">>

RECURSIVE BrokenFrom(_, _)
\* r'\b' + compound.replace('-', ',\s*') + r'\b', from offset i of compound
BrokenFrom(compound, i) ==
  LET hy == {j \in i..(Len(compound) - 1) : compound[j + 1] = "-"}
  IN IF hy = {} THEN Lit(Slice(compound, i, Len(compound))) \o <<AWb>>
     ELSE Lit(Slice(compound, i, Minimum(hy)))
          \o <<AChar(","), AStar(SpaceSet)>>
          \o BrokenFrom(compound, Minimum(hy) + 1)

Broken(compound) == <<AWb>> \o BrokenFrom(compound, 0)

RECURSIVE RestoreCompoundsFrom(_, _, _)
\* lines 483-489: the loop over compound_words from entry k on
RestoreCompoundsFrom(compounds, k, t) ==
  IF k > Len(compounds) THEN t
  ELSE Bind(Sub(Broken(compounds[k]), TRUE, <<RLit(compounds[k])>>, t),
            LAMBDA res : RestoreCompoundsFrom(compounds, k + 1, res))

connectors == <<
    Lit(<<"S","o">>),
    Lit(<<"B","u","t">>),
    Lit(<<"W","e","l","l">>),
    Lit(<<"N","o","w">>),
    Lit(<<"A","l","s","o">>),
    Lit(<<"P","l","u","s">>) >>

\* r'\b(So|But|Well|Now|Also|Plus),\s+(So|But|Well|Now|Also|Plus)\b'
double_connector_pattern ==
  <<AWb, AMark, AAlt(connectors), AMark, AChar(","), APlus(SpaceSet),
    AAlt(connectors), AWb>>

protected_acronyms == {
    <<"a","i">>,
    <<"a","p","i">>,
    <<"h","t","t","p">>,
    <<"s","q","l">>,
    <<"x","m","l">>,
    <<"h","t","m","l">>,
    <<"c","s","s">>,
    <<"j","s","o","n">>,
    <<"u","r","l">> }

\* the loop of lines 497-504 on the tokens of the text
FixMidSentenceCapitals(words) ==
  [i \in 1..Len(words) |->
     IF /\ i > 1
        /\ Len(words[i]) > 2
        /\ IsUpper(words[i][1])
        /\ ~EndsWithAny(words[i - 1], {".", "!", "?"})
        /\ Lower(words[i]) \notin protected_acronyms
     THEN LowerFirst(words[i])
     ELSE words[i]]

\* r'\bWord,?\s+'
ResidualPattern(w) == <<AWb>> \o Lit(w) \o <<AOpt(","), APlus(SpaceSet)>>

RECURSIVE SentenceStartsFrom(_, _)
\* the offsets where the pieces of re.split(r'([.!?]\s+)', text) that follow
\* a separator start, over the separator matches ms
SentenceStartsFrom(ms, i) ==
  LET starts == StartsFrom(ms, i)
  IN IF starts = {} THEN {}
     ELSE LET e == ms[Minimum(starts)].end
          IN {e} \cup SentenceStartsFrom(ms, e)

\* lines 521-525 left out: no piece is upper-cased
CapitalizeNoSentence(t) == t

\* lines 521-525: upper-case the first character of every piece that starts
\* with a letter (a separator starts with . ! or ?)
CapitalizeSentences(t) ==
  LET ms == MatchTable(<<ASet({".", "!", "?"}, 1, 1), APlus(SpaceSet)>>,
                       FALSE, t)
      starts == {0} \cup SentenceStartsFrom(ms, 0)
  IN [i \in 1..Len(t) |->
        IF (i - 1) \in starts /\ IsAlpha(t[i]) THEN ToUpper(t[i]) ELSE t[i]]

\* lines 475-476 without the substitution of line 479
SpacingRulesNoDashes == <<
    [pat |-> <<APlus(SpaceSet)>>, repl |-> <<RLit(<<" ">>)>>],
    [pat |-> <<APlus(SpaceSet), AMark, ASet(PunctSet, 1, 1), AMark>>,
     repl |-> <<RGroup(1)>>] >>

\* lines 475-481: runs of whitespace, whitespace before punctuation, dashes
spacing_rules == <<
    [pat |-> <<APlus(SpaceSet)>>, repl |-> <<RLit(<<" ">>)>>],
    [pat |-> <<APlus(SpaceSet), AMark, ASet(PunctSet, 1, 1), AMark>>,
     repl |-> <<RGroup(1)>>],
    [pat |-> <<AStar(SpaceSet), ASet(DashSet, 1, 3), AStar(SpaceSet)>>,
     repl |-> <<RLit(<<",", " ">>)>>] >>

\* lines 507-509: connectors left behind by the phrase replacement
residual_rules == <<
    [pat |-> ResidualPattern(<<"S","u","b","s","e","q","u","e","n","t","l","y">>),
     repl |-> <<>>],
    [pat |-> ResidualPattern(<<"F","u","r","t","h","e","r","m","o","r","e">>),
     repl |-> <<>>],
    [pat |-> ResidualPattern(<<"M","o","r","e","o","v","e","r">>),
     repl |-> <<>>] >>

\* lines 512-518 without the substitution of line 514
PunctuationRulesNoCommas == <<
    [pat |-> <<AChar("."), AStar(SpaceSet), AChar(","), AStar(SpaceSet)>>,
     repl |-> <<RLit(<<".", " ">>)>>],
    [pat |-> <<AChar(","), APlus(SpaceSet), AChar(".")>>,
     repl |-> <<RLit(<<".">>)>>],
    [pat |-> <<AChar("."), APlus({"."})>>, repl |-> <<RLit(<<".">>)>>],
    [pat |-> <<APlus(SpaceSet)>>, repl |-> <<RLit(<<" ">>)>>] >>

\* lines 512-518: doubled punctuation and whitespace
punctuation_rules == <<
    [pat |-> <<AChar("."), AStar(SpaceSet), AChar(","), AStar(SpaceSet)>>,
     repl |-> <<RLit(<<".", " ">>)>>],
    [pat |-> <<AChar(","), APlus(SpaceSet), AChar(".")>>,
     repl |-> <<RLit(<<".">>)>>],
    [pat |-> <<AChar(","), AStar(SpaceSet), APlus({","})>>,
     repl |-> <<RLit(<<",">>)>>],
    [pat |-> <<AChar("."), APlus({"."})>>, repl |-> <<RLit(<<".">>)>>],
    [pat |-> <<APlus(SpaceSet)>>, repl |-> <<RLit(<<" ">>)>>] >>

\* lines 527-529: the first character of the text upper-cased
CapitalizeFirst(s) ==
  IF s # <<>> /\ IsLower(s[1]) THEN UpperFirst(s) ELSE s

\* lines 475-505
CleanupStructure(t) ==
  Join(FixMidSentenceCapitals(Split(
    Sub(double_connector_pattern, TRUE, <<RGroup(1)>>,
        RestoreCompoundsFrom(compound_words, 1,
                             SubAllFrom(spacing_rules, 1, FALSE, t))))),
    <<" ">>)

\* lines 520-529 left out: no letter is upper-cased at the end
CleanupUncapitalized(t) ==
  Bind(CleanupStructure(t), LAMBDA t6 :
    Strip(SubAllFrom(punctuation_rules, 1, FALSE,
                     SubAllFrom(residual_rules, 1, TRUE, t6))))

_intelligent_cleanup(t) ==
  Bind(CleanupStructure(t), LAMBDA t6 :
    Strip(CapitalizeFirst(CapitalizeSentences(
      SubAllFrom(punctuation_rules, 1, FALSE,
                 SubAllFrom(residual_rules, 1, TRUE, t6))))))

(***************************************************************************)
(* Humanizer._calculate_quality_metrics (floats before rounding).          *)
(***************************************************************************)
RECURSIVE SumSeq(_)
SumSeq(xs) == IF xs = <<>> THEN 0 ELSE Head(xs) + SumSeq(Tail(xs))

\* _calculate_variance: sum((x - mean)**2)/len = (n*sum(x*x) - sum(x)**2)/n**2
_calculate_variance(numbers) ==
  IF numbers = <<>> THEN Rat(0, 1)
  ELSE LET n == Len(numbers)
           sq == [i \in 1..n |-> numbers[i] * numbers[i]]
       IN Rat(n * SumSeq(sq) - SumSeq(numbers) * SumSeq(numbers), n * n)

Abs(x) == IF x < 0 THEN -x ELSE x

DefaultMetrics ==
  [raised |-> FALSE,
   vocabulary_change_ratio |-> Rat(0, 1),
   burstiness_increase |-> Rat(0, 1),
   tone_preserved |-> TRUE,
   original_tone |-> "neutral",
   length_change_percent |-> Rat(0, 1),
   formality_shift |-> Rat(0, 1),
   readability_maintained |-> TRUE]

\* what propagates out of _calculate_quality_metrics when analyze raises
MetricsError == [raised |-> TRUE]

\* the word counts of the sentences of a text (lines 551-555)
SentenceLengths(t) ==
  Bind(_split_sentences(t), LAMBDA sentences :
    [i \in 1..Len(sentences) |-> Len(Split(sentences[i]))])

\* set(text.lower().split())
WordsOf(t) == Bind(Split(Lower(t)), LAMBDA ws : {ws[i] : i \in 1..Len(ws)})

\* the metrics, from the two analyses, the two word sets and the two variances
QualityMetrics(original, modified, orig_analysis, mod_analysis, orig_words, mod_words, orig_variance, mod_variance) ==
  LET vocabulary_change ==
        IF orig_words # {}
        THEN Rat(Cardinality(mod_words \ orig_words), Cardinality(orig_words))
        ELSE Rat(0, 1)
      \* (mod_variance - orig_variance) / (orig_variance + 1)
      burstiness_increase ==
        Rat(mod_variance.n * orig_variance.d
              - orig_variance.n * mod_variance.d,
            mod_variance.d * (orig_variance.n + orig_variance.d))
      \* (len(modified) - len(original)) / len(original) * 100
      length_change ==
        Rat((Len(modified) - Len(original)) * 100, Len(original))
  IN [raised |-> FALSE,
      vocabulary_change_ratio |-> vocabulary_change,
      burstiness_increase |-> burstiness_increase,
      tone_preserved |->
        orig_analysis.target_tone = mod_analysis.target_tone,
      original_tone |-> orig_analysis.target_tone,
      length_change_percent |-> length_change,
      formality_shift |->
        Rat(mod_analysis.formality_score.n * orig_analysis.formality_score.d
              - orig_analysis.formality_score.n
                * mod_analysis.formality_score.d,
            mod_analysis.formality_score.d * orig_analysis.formality_score.d),
      readability_maintained |->
        Abs(length_change.n) < 10 * length_change.d]

\* the analyses of both texts, in the order of lines 538-539
BothAnalyses(original, modified) ==
  Bind(analyze(original), LAMBDA orig_analysis :
    IF orig_analysis.raised THEN <<orig_analysis, orig_analysis>>
    ELSE <<orig_analysis, analyze(modified)>>)

_calculate_quality_metrics(original, modified) ==
  IF original = <<>> \/ modified = <<>> THEN DefaultMetrics
  ELSE Bind(BothAnalyses(original, modified), LAMBDA an :
         IF an[1].raised \/ an[2].raised THEN MetricsError
         ELSE QualityMetrics(original, modified, an[1], an[2],
                             WordsOf(original), WordsOf(modified),
                             _calculate_variance(SentenceLengths(original)),
                             _calculate_variance(SentenceLengths(modified))))

(***************************************************************************)
(* Humanizer: configuration.  An intensity is a number of hundredths; the  *)
(* intensity that scales the config is a number of ten-thousandths, and a  *)
(* scaled probability a number of millionths.                              *)
(***************************************************************************)
\* line 411 left out: the caller's intensity whatever the analysis says
UndampedIntensity(intensity, is_already_human) == intensity * 100

\* line 411: min(intensity * 0.15, 0.1), else the caller's intensity
EffectiveIntensity(intensity, is_already_human) ==
  IF is_already_human THEN Min(intensity * 15, 1000) ELSE intensity * 100

\* _scale_config
_scale_config(config, intensity) ==
  [uncertainty_probability |-> config.uncertainty_probability * intensity,
   colloquial_probability |-> config.colloquial_probability * intensity,
   sentence_variation |-> config.sentence_variation * intensity,
   personal_touches |-> config.personal_touches * intensity,
   synonym_replacement |-> config.synonym_replacement * intensity,
   structure_modification |-> config.structure_modification * intensity,
   max_modifications_per_sentence |-> config.max_modifications_per_sentence]

(***************************************************************************)
(* Humanizer.humanize as a state machine on one Humanizer instance: the    *)
(* call with its guard and set-up, one step per pipeline stage, the        *)
(* except-clause, and the return with the quality metrics.                 *)
(***************************************************************************)
\* the texts humanize is called with
Texts == {
    <<>>,
    <<" "," ","H","i"," ","t","h","e","r","e","."," "," ">>,
    <<"T","e","n"," ","c","h","a","r","s",".">>,
    <<"F","u","r","t","h","e","r","m","o","r","e",","," ","w","e"," ","u","t","i","l","i","z","e"," ","r","o","b","u","s","t"," ","t","o","o","l","s",".">>,
    <<"W","o","w","!"," ","R","e","a","l","l","y","?"," ","W","e"," ","u","t","i","l","i","z","e"," ","m","y"," ","t","o","o","l","s",".">>,
    <<"T","h","e"," ","c","a","t","."," ","T","h","e"," ","d","o","g","."," ","T","h","e"," ","r","o","b","u","s","t"," ","e","n","d",".">>,
    <<"I","t"," ","i","s"," "," ","i","m","p","o","r","t","a","n","t"," ","t","o"," ","n","o","t","e"," ","t","h","a","t"," ","w","e"," ","g","o",".">>,
    <<"M","o","r","e","o","v","e","r"," "," ","F","u","r","t","h","e","r","m","o","r","e">> }

\* the intensities humanize is called with, in hundredths
Intensities == {60, 100}

\* the values random.seed is called with before a call: 0..MaxSeed
MaxSeed == 1

Seeds == 0..MaxSeed

\* the stages inside the try block, in program order
Stages == <<"replace_ai_phrases", "restructure_nominal_phrases",
            "replace_synonyms_contextual", "reduce_the_repetition",
            "add_human_imperfections", "_intelligent_cleanup">>

StageSet == {Stages[i] : i \in 1..Len(Stages)}

None == [none |-> TRUE]

VARIABLES
  recently_used,         \* ModificationEngine.recently_used
  used_in_current_text,  \* ModificationEngine.used_in_current_text
  rng,                   \* the state of the module-level random generator
  seed,                  \* the value the generator was last seeded with
  pc,                    \* where the current call of humanize stands
  text,                  \* humanize's argument text
  intensity,             \* humanize's argument intensity (hundredths)
  analysis,              \* local analysis
  eff_intensity,         \* local intensity after line 411 (ten-thousandths)
  scaled_config,         \* local scaled_config
  modified_text,         \* local modified_text
  modifications_count,   \* local modifications_count
  trace,                 \* what the current call ran: [stage, input, output]
  start_recently_used,   \* recently_used when the current call started
  result,                \* what the last call of humanize returned or raised
  previous,              \* the call of humanize completed before the last one
  args,                  \* the last direct call of a TextAnalyzer method
  ret,                   \* what that call returned
  threads                \* the threads inside replace_synonyms_contextual

vars == <<recently_used, used_in_current_text, rng, seed, pc, text, intensity,
          analysis, eff_intensity, scaled_config, modified_text,
          modifications_count, trace, start_recently_used, result, previous,
          args, ret, threads>>

engine == <<recently_used, used_in_current_text>>

locals == <<text, intensity, analysis, eff_intensity, scaled_config,
            modified_text, modifications_count>>

\* the variables of the humanize call
humanizing == <<rng, seed, pc, locals, trace, start_recently_used, result>>

\* the variables of direct calls of a method, from one thread or from two
analyzing == <<args, ret, threads>>

\* the threads that share one Humanizer
Threads == {"t1", "t2"}

\* a thread that has not called replace_synonyms_contextual
NoCall ==
  [pc |-> "idle", words |-> <<>>, i |-> 0, config |-> None,
   formality_level |-> "", text |-> <<>>]

\* Humanizer.__init__ and ModificationEngine.__init__, before any call
NewHumanizer ==
  /\ recently_used = <<>>
  /\ used_in_current_text = {}
  /\ rng = 0
  /\ seed = 0
  /\ pc = "idle"
  /\ text = <<>>
  /\ intensity = 0
  /\ analysis = None
  /\ eff_intensity = 0
  /\ scaled_config = None
  /\ modified_text = <<>>
  /\ modifications_count = 0
  /\ trace = <<>>
  /\ start_recently_used = <<>>
  /\ result = None
  /\ threads = [th \in Threads |-> NoCall]

Init ==
  /\ NewHumanizer
  /\ previous = None
  /\ args = None
  /\ ret = None

\* the guard of line 398 without the strip
ShortInputUntrimmed(t) == t = <<>> \/ Len(t) < 10

\* line 398: not text or len(text.strip()) < 10
ShortInput(t) == t = <<>> \/ Len(Strip(t)) < 10

\* what a call that raises leaves its caller with
Raised(e) == [exception |-> e]

\* lines 398-404: the result of the short-input guard
ShortResult(t) ==
  [original |-> t, humanized |-> t, analysis |-> None,
   modifications_applied |-> 0]

\* a reset that also empties the recency deque
ResetAllTracking ==
  /\ used_in_current_text' = {}
  /\ recently_used' = <<>>

\* ModificationEngine.reset_current_text_tracking
reset_current_text_tracking ==
  /\ used_in_current_text' = {}
  /\ recently_used' = recently_used

\* humanize drawing from a generator that random.seed does not reset
CallUnseeded(t, i, s) ==
  /\ pc \in {"idle", "returned"}
  /\ rng' = rng
  /\ seed' = s
  /\ text' = t
  /\ intensity' = i
  /\ trace' = <<>>
  /\ start_recently_used' = recently_used
  /\ modified_text' = t
  /\ modifications_count' = 0
  /\ IF ShortInput(t)
     THEN /\ result' = ShortResult(t)
          /\ pc' = "returned"
          /\ analysis' = None
          /\ eff_intensity' = i * 100
          /\ scaled_config' = None
          /\ UNCHANGED engine
     ELSE /\ reset_current_text_tracking
          /\ \E a \in {analyze(t)} :
               /\ analysis' = a
               /\ IF a.raised
                  THEN /\ result' = Raised("ZeroDivisionError")
                       /\ pc' = "returned"
                       /\ eff_intensity' = i * 100
                       /\ scaled_config' = None
                  ELSE /\ eff_intensity' =
                            EffectiveIntensity(i, a.is_already_human)
                       /\ scaled_config' =
                            _scale_config(
                              get_config_for_tone(a.target_tone,
                                                  a.is_already_human),
                              EffectiveIntensity(i, a.is_already_human))
                       /\ result' = None
                       /\ pc' = Stages[1]

\* random.seed(s); humanize(t, i): lines 398-415
Call(t, i, s) ==
  /\ pc \in {"idle", "returned"}
  /\ rng' = s
  /\ seed' = s
  /\ text' = t
  /\ intensity' = i
  /\ trace' = <<>>
  /\ start_recently_used' = recently_used
  /\ modified_text' = t
  /\ modifications_count' = 0
  /\ IF ShortInput(t)
     THEN /\ result' = ShortResult(t)
          /\ pc' = "returned"
          /\ analysis' = None
          /\ eff_intensity' = i * 100
          /\ scaled_config' = None
          /\ UNCHANGED engine
     ELSE /\ reset_current_text_tracking
          /\ \E a \in {analyze(t)} :
               /\ analysis' = a
               /\ IF a.raised
                  THEN /\ result' = Raised("ZeroDivisionError")
                       /\ pc' = "returned"
                       /\ eff_intensity' = i * 100
                       /\ scaled_config' = None
                  ELSE /\ eff_intensity' =
                            EffectiveIntensity(i, a.is_already_human)
                       /\ scaled_config' =
                            _scale_config(
                              get_config_for_tone(a.target_tone,
                                                  a.is_already_human),
                              EffectiveIntensity(i, a.is_already_human))
                       /\ result' = None
                       /\ pc' = Stages[1]

\* one more entry of the trace
Ran(stage, out) ==
  Append(trace, [stage |-> stage, input |-> modified_text, output |-> out])

\* Step 1 without the test of line 422: the four stages always follow
ReplaceAiPhrasesThenAll ==
  /\ pc = "replace_ai_phrases"
  /\ \E res \in {replace_ai_phrases(modified_text, rng)} :
        /\ modified_text' = res.text
        /\ rng' = res.rng
        /\ trace' = Ran(pc, res.text)
  /\ modifications_count' = modifications_count + 1
  /\ pc' = "restructure_nominal_phrases"
  /\ UNCHANGED <<engine, seed, text, intensity, analysis, eff_intensity,
                 scaled_config, start_recently_used, result>>

\* Step 1, lines 419-420; line 422 decides what follows
ReplaceAiPhrases ==
  /\ pc = "replace_ai_phrases"
  /\ \E res \in {replace_ai_phrases(modified_text, rng)} :
        /\ modified_text' = res.text
        /\ rng' = res.rng
        /\ trace' = Ran(pc, res.text)
  /\ modifications_count' = modifications_count + 1
  /\ pc' = IF ~analysis.is_already_human THEN "restructure_nominal_phrases"
           ELSE "_intelligent_cleanup"
  /\ UNCHANGED <<engine, seed, text, intensity, analysis, eff_intensity,
                 scaled_config, start_recently_used, result>>

\* Step 2, lines 424-425
RestructureNominalPhrases ==
  /\ pc = "restructure_nominal_phrases"
  /\ \E out \in {restructure_nominal_phrases(modified_text)} :
        /\ modified_text' = out
        /\ trace' = Ran(pc, out)
  /\ modifications_count' = modifications_count + 1
  /\ pc' = "replace_synonyms_contextual"
  /\ UNCHANGED <<engine, rng, seed, text, intensity, analysis, eff_intensity,
                 scaled_config, start_recently_used, result>>

\* Step 3, lines 428-431
ReplaceSynonymsContextual ==
  /\ pc = "replace_synonyms_contextual"
  /\ \E res \in {replace_synonyms_contextual(modified_text, scaled_config,
                     analysis.target_tone, recently_used, rng)} :
        /\ modified_text' = res.text
        /\ recently_used' = res.recently_used
        /\ rng' = res.rng
        /\ trace' = Append(trace, [stage |-> pc, input |-> modified_text,
                                   output |-> res.text,
                                   words |-> res.words,
                                   replaced |-> res.replaced])
  /\ modifications_count' = modifications_count + 1
  /\ pc' = "reduce_the_repetition"
  /\ UNCHANGED <<used_in_current_text, seed, text, intensity, analysis,
                 eff_intensity, scaled_config, start_recently_used, result>>

\* Step 4, lines 434-435
ReduceTheRepetition ==
  /\ pc = "reduce_the_repetition"
  /\ \E out \in {reduce_the_repetition(modified_text)} :
        /\ modified_text' = out
        /\ trace' = Ran(pc, out)
  /\ modifications_count' = modifications_count + 1
  /\ pc' = "add_human_imperfections"
  /\ UNCHANGED <<engine, rng, seed, text, intensity, analysis, eff_intensity,
                 scaled_config, start_recently_used, result>>

\* Step 5, lines 438-439
AddHumanImperfections ==
  /\ pc = "add_human_imperfections"
  /\ \E res \in {add_human_imperfections(modified_text, rng)} :
        /\ modified_text' = res.text
        /\ rng' = res.rng
        /\ trace' = Ran(pc, res.text)
  /\ modifications_count' = modifications_count + 1
  /\ pc' = "_intelligent_cleanup"
  /\ UNCHANGED <<engine, seed, text, intensity, analysis, eff_intensity,
                 scaled_config, start_recently_used, result>>

\* a cleanup that is counted as a modification
IntelligentCleanupCounted ==
  /\ pc = "_intelligent_cleanup"
  /\ \E out \in {_intelligent_cleanup(modified_text)} :
        /\ modified_text' = out
        /\ trace' = Ran(pc, out)
  /\ modifications_count' = modifications_count + 1
  /\ pc' = "_calculate_quality_metrics"
  /\ UNCHANGED <<engine, rng, seed, text, intensity, analysis, eff_intensity,
                 scaled_config, start_recently_used, result>>

\* Step 6, line 442
IntelligentCleanup ==
  /\ pc = "_intelligent_cleanup"
  /\ \E out \in {_intelligent_cleanup(modified_text)} :
        /\ modified_text' = out
        /\ trace' = Ran(pc, out)
  /\ pc' = "_calculate_quality_metrics"
  /\ UNCHANGED <<engine, rng, seed, text, intensity, analysis, eff_intensity,
                 scaled_config, modifications_count, start_recently_used,
                 result>>

\* a stage of the try block raises an Exception as it is entered
StageRaises ==
  /\ pc \in StageSet
  /\ pc' = "except"
  /\ UNCHANGED <<engine, rng, seed, locals, trace, start_recently_used,
                 result>>

\* an except clause that keeps what the stages had produced
ExceptKeepsPartial ==
  /\ pc = "except"
  /\ modified_text' = modified_text
  /\ trace' = Ran("except", modified_text)
  /\ pc' = "_calculate_quality_metrics"
  /\ UNCHANGED <<engine, rng, seed, text, intensity, analysis, eff_intensity,
                 scaled_config, modifications_count, start_recently_used,
                 result>>

\* the except clause, lines 444-446
ExceptClause ==
  /\ pc = "except"
  /\ modified_text' = text
  /\ trace' = Ran("except", text)
  /\ pc' = "_calculate_quality_metrics"
  /\ UNCHANGED <<engine, rng, seed, text, intensity, analysis, eff_intensity,
                 scaled_config, modifications_count, start_recently_used,
                 result>>

\* lines 450-458: the dict humanize returns
FullResult(quality_metrics) ==
  [original |-> text,
   humanized |-> modified_text,
   analysis |-> analysis,
   config_used |-> scaled_config,
   modifications_applied |-> modifications_count,
   quality_metrics |-> quality_metrics,
   was_already_human |-> analysis.is_already_human]

\* lines 448-458
ReturnResult ==
  /\ pc = "_calculate_quality_metrics"
  /\ \E quality_metrics \in {_calculate_quality_metrics(text, modified_text)} :
       result' = IF quality_metrics.raised THEN Raised("ZeroDivisionError")
                 ELSE FullResult(quality_metrics)
  /\ pc' = "returned"
  /\ UNCHANGED <<engine, rng, seed, locals, trace, start_recently_used>>

Humanize ==
  \E t \in Texts, i \in Intensities, s \in Seeds :
    Call(t, i, s) /\ UNCHANGED <<previous, analyzing>>

Step1 == ReplaceAiPhrases /\ UNCHANGED <<previous, analyzing>>

Step2 == RestructureNominalPhrases /\ UNCHANGED <<previous, analyzing>>

Step3 == ReplaceSynonymsContextual /\ UNCHANGED <<previous, analyzing>>

Step4 == ReduceTheRepetition /\ UNCHANGED <<previous, analyzing>>

Step5 == AddHumanImperfections /\ UNCHANGED <<previous, analyzing>>

Step6 == IntelligentCleanup /\ UNCHANGED <<previous, analyzing>>

Raise == StageRaises /\ UNCHANGED <<previous, analyzing>>

Except == ExceptClause /\ UNCHANGED <<previous, analyzing>>

Return == ReturnResult /\ UNCHANGED <<previous, analyzing>>

Next ==
  \/ Humanize
  \/ Step1
  \/ Step2
  \/ Step3
  \/ Step4
  \/ Step5
  \/ Step6
  \/ Raise
  \/ Except
  \/ Return

Spec == Init /\ [][Next]_vars

(***************************************************************************)
(* Two calls of humanize compared: the same text and intensity, the        *)
(* generator seeded before each call, on one Humanizer or on a new one.    *)
(***************************************************************************)
SeedText == <<"F","u","r","t","h","e","r","m","o","r","e",","," ","w","e"," ","u","t","i","l","i","z","e"," ","r","o","b","u","s","t"," ","t","o","o","l","s",".">>

\* the call that has returned, as its caller saw it
LastCall ==
  [text |-> text, intensity |-> intensity, seed |-> seed,
   start_recently_used |-> start_recently_used,
   humanized |-> result.humanized]

\* random.seed(s); humanize(SeedText, 1.0), after a call that returned or
\* as the first call
HumanizeAgain ==
  /\ \E s \in Seeds : Call(SeedText, 100, s)
  /\ previous' = IF pc = "returned" THEN LastCall ELSE previous
  /\ UNCHANGED analyzing

\* humanizer = Humanizer(): lines 226-229, a new engine with an empty deque
NewInstance ==
  /\ pc = "returned"
  /\ recently_used # <<>>
  /\ recently_used' = <<>>
  /\ used_in_current_text' = {}
  /\ UNCHANGED <<humanizing, previous, analyzing>>

NextSeed ==
  \/ HumanizeAgain
  \/ Step1
  \/ Step2
  \/ Step3
  \/ Step4
  \/ Step5
  \/ Step6
  \/ Return
  \/ NewInstance

SpecSeed == Init /\ [][NextSeed]_vars

(***************************************************************************)
(* One Humanizer called again and again with a text of many synonym keys,  *)
(* until the deque is full and evicts.                                     *)
(***************************************************************************)
RecencyText == <<"R","o","b","u","s","t"," ","s","y","s","t","e","m","s"," ","e","n","a","b","l","e"," ","c","r","u","c","i","a","l"," ","d","a","t","a","s","e","t","s",","," ","r","e","q","u","i","r","e"," ","n","u","m","e","r","o","u","s"," ","t","o","o","l","s",".">>

\* random.seed(0); humanize(RecencyText, 1.0)
HumanizeMany ==
  Call(RecencyText, 100, 0) /\ UNCHANGED <<previous, analyzing>>

NextRecency ==
  \/ HumanizeMany
  \/ Step1
  \/ Step2
  \/ Step3
  \/ Step4
  \/ Step5
  \/ Step6
  \/ Return

SpecRecency == Init /\ [][NextRecency]_vars

(***************************************************************************)
(* The methods of TextAnalyzer called directly (Humanizer.get_analysis_only *)
(* calls analyze with no guard before it).                                 *)
(***************************************************************************)
\* the texts analyze and _is_already_human are called with
AnalyzerTexts == {
    <<>>,
    <<" "," "," ">>,
    <<"\n","\t"," ">>,
    <<"P","l","a","i","n"," ","w","o","r","d","s"," ","o","n","l","y"," ","h","e","r","e",".">>,
    <<"W","o","w","!"," ","R","e","a","l","l","y","?"," ","O","k"," ","t","h","e","n",".">>,
    <<"W","e"," ","l","i","k","e"," ","i","t",".">>,
    <<"W","o","w","!"," ","W","h","y"," ","c","a","n","'","t"," ","w","e","?">>,
    <<"I"," ","c","a","n","'","t","!"," ","m","y"," ","m","a","p","?"," ","U+1F600">> }

\* scores are the multiples of 1/Scale from 0 to 10
Scale == 2

Scores == {Rat(n, Scale) : n \in 0..(10 * Scale)}

\* casual_count ranges over 0..MaxCasual
MaxCasual == 6

\* the direct calls: the method and its arguments
AnalyzerCalls ==
  {[method |-> "analyze", text |-> t] : t \in AnalyzerTexts}
  \cup {[method |-> "_determine_tone", formality |-> f, technicality |-> tc,
         casual_count |-> c] : f \in Scores, tc \in Scores, c \in 0..MaxCasual}
  \cup {[method |-> "_is_already_human", text |-> t, formality_score |-> f,
         casual_count |-> c] :
          t \in AnalyzerTexts, f \in Scores, c \in 0..MaxCasual}

\* a new Humanizer, and the call about to be made on its analyzer
InitAnalyzer ==
  /\ NewHumanizer
  /\ previous = None
  /\ args \in AnalyzerCalls
  /\ ret = None

\* get_analysis_only(text), lines 597-599
GetAnalysisOnly ==
  /\ ret = None
  /\ args.method = "analyze"
  /\ ret' = analyze(args.text)
  /\ UNCHANGED <<engine, humanizing, previous, args, threads>>

\* _determine_tone(formality, technicality, casual_count)
DetermineTone ==
  /\ ret = None
  /\ args.method = "_determine_tone"
  /\ ret' = [value |-> _determine_tone(args.formality, args.technicality,
                                         args.casual_count)]
  /\ UNCHANGED <<engine, humanizing, previous, args, threads>>

\* _is_already_human(text, formality_score, casual_count), with its local
\* human_score when it returns
IsAlreadyHuman ==
  /\ ret = None
  /\ args.method = "_is_already_human"
  /\ ret' = [value |-> _is_already_human(args.text, args.formality_score,
                                           args.casual_count),
             human_score |-> human_score(args.text, args.formality_score,
                                         args.casual_count)]
  /\ UNCHANGED <<engine, humanizing, previous, args, threads>>

NextAnalyzer ==
  \/ GetAnalysisOnly
  \/ DetermineTone
  \/ IsAlreadyHuman

SpecAnalyzer == InitAnalyzer /\ [][NextAnalyzer]_vars

(***************************************************************************)
(* Humanizer._intelligent_cleanup called on its own, on every text of at   *)
(* most MaxCleanupLen characters of a small alphabet.                      *)
(***************************************************************************)
\* the characters of the texts the cleanup is called with
CleanupAlphabet == {"a", "U+0138", " ", ".", ",", "-", "!"}

\* the length of the longest of these texts
MaxCleanupLen == 4

CleanupTexts == UNION {[1..k -> CleanupAlphabet] : k \in 0..MaxCleanupLen}

\* texts with a protected acronym in capitals after another word or after
\* the end of a sentence, alone or followed by punctuation or a word
AcronymTexts ==
  {pre \o acr \o post :
     pre \in {<<"x", " ">>, <<"x", ".", " ">>},
     acr \in {<<"A","I">>, <<"A","P","I">>, <<"U","R","L">>},
     post \in {<<>>, <<",">>, <<".">>, <<" ", "y">>}}

\* the ways two words are joined in the texts below: hyphens, an en dash, an
\* em dash with spaces, and the comma the dash replacement leaves
WordJoints ==
  {<<"-">>, <<" ", "-", " ">>, <<"-", "-">>, <<"-", "-", "-", "-">>,
   <<"U+2013">>, <<" ", "U+2014", " ">>, <<",", " ">>}

\* texts with two words joined into a whitelisted compound or into another
\* hyphenated word, alone, after a word and inside longer words
CompoundTexts ==
  {a \o w1 \o joint \o w2 \o b :
     a \in {<<>>, <<"x", " ">>, <<"x">>},
     w1 \in {<<"l","o","n","g">>, <<"L","o","n","g">>, <<"w","e","l","l">>},
     joint \in WordJoints,
     w2 \in {<<"t","e","r","m">>, <<"k","n","o","w","n">>},
     b \in {<<>>, <<" ", "y">>, <<"s">>, <<"-">>, <<".">>}}

\* a new Humanizer, and the text its cleanup is about to be given
InitCleanup ==
  /\ NewHumanizer
  /\ previous = None
  /\ args \in {[method |-> "_intelligent_cleanup", text |-> t] :
                 t \in CleanupTexts \cup AcronymTexts \cup CompoundTexts}
  /\ ret = None

\* self._intelligent_cleanup(text)
Cleanup ==
  /\ ret = None
  /\ args.method = "_intelligent_cleanup"
  /\ ret' = [value |-> _intelligent_cleanup(args.text)]
  /\ UNCHANGED <<engine, humanizing, previous, args, threads>>

NextCleanup == Cleanup

SpecCleanup == InitCleanup /\ [][NextCleanup]_vars

(***************************************************************************)
(* HumanizerEvaluator.  Scores are in hundredths: every penalty is a       *)
(* multiple of 0.5, so the float arithmetic of the code is exact.          *)
(***************************************************************************)
\* lines 611-619: the pattern, the penalty and the description of each row
ai_patterns == <<
    [pat |-> <<AWb, AMark, AAlt(<<Lit(<<"f","u","r","t","h","e","r","m","o","r","e">>), Lit(<<"m","o","r","e","o","v","e","r">>), Lit(<<"a","d","d","i","t","i","o","n","a","l","l","y">>), Lit(<<"c","o","n","s","e","q","u","e","n","t","l","y">>), Lit(<<"s","u","b","s","e","q","u","e","n","t","l","y">>)>>), AMark, AWb>>,
     penalty |-> -400, description |-> "Formal transitions"],
    [pat |-> <<AWb>> \o Lit(<<"I","t"," ","i","s"," ","i","m","p","o","r","t","a","n","t"," ","t","o"," ","n","o","t","e"," ","t","h","a","t">>) \o <<AWb>>,
     penalty |-> -500, description |-> "AI opening phrase"],
    [pat |-> <<AWb, AMark, AAlt(<<Lit(<<"c","o","m","p","r","e","h","e","n","s","i","v","e">>), Lit(<<"r","o","b","u","s","t">>), Lit(<<"l","e","v","e","r","a","g","e">>), Lit(<<"u","t","i","l","i","z","e">>), Lit(<<"f","a","c","i","l","i","t","a","t","e">>)>>), AMark, AWb>>,
     penalty |-> -200, description |-> "AI vocabulary"],
    [pat |-> <<AChar("."), APlus(SpaceSet)>> \o Lit(<<"T","h","e">>) \o <<APlus(SpaceSet)>>,
     penalty |-> -100, description |-> "Monotonous sentence starts"],
    [pat |-> <<AChar(","), APlus(SpaceSet), AMark, AAlt(<<Lit(<<"m","a","k","i","n","g">>), Lit(<<"b","e","i","n","g">>), Lit(<<"t","e","r","m">>)>>), AMark, AWb>>,
     penalty |-> -300, description |-> "Broken compound words"],
    [pat |-> <<AWb, AMark, AAlt(<<Lit(<<"S","o">>), Lit(<<"B","u","t">>), Lit(<<"A","l","s","o">>)>>), AMark, AChar(","), APlus(SpaceSet), AMark, AAlt(<<Lit(<<"S","o">>), Lit(<<"B","u","t">>), Lit(<<"A","l","s","o">>)>>), AMark, AWb>>,
     penalty |-> -400, description |-> "Double connectors"],
    [pat |-> Lit(<<"T","h","e"," ">>) \o <<APlus(WordSet)>> \o Lit(<<" ","o","f">>),
     penalty |-> -50, description |-> "Nominal phrase pattern"] >>

\* a count of matches that tells the letter cases apart
CountMatchesCased(pattern, t) == FindAll(pattern, FALSE, t)

\* line 622: len(re.findall(pattern, text, re.IGNORECASE))
CountMatches(pattern, t) == FindAll(pattern, TRUE, t)

RECURSIVE ApplyAiPatterns(_, _, _, _)
\* the loop of lines 621-625 from row k on: the score and the issues
ApplyAiPatterns(t, k, score, issues) ==
  IF k > Len(ai_patterns) THEN [score |-> score, issues |-> issues]
  ELSE Bind(CountMatches(ai_patterns[k].pat, t), LAMBDA matches :
         IF matches > 0
         THEN ApplyAiPatterns(t, k + 1,
                              score + ai_patterns[k].penalty * matches,
                              Append(issues,
                                     [description |-> ai_patterns[k].description,
                                      matches |-> matches]))
         ELSE ApplyAiPatterns(t, k + 1, score, issues))

\* a score left as the loop computed it
Unclamped(score) == score

\* line 627: max(0, min(100, score))
ClampScore(score) == Max(0, Min(10000, score))

\* lines 631 and 633: the verdict for a score
Verdict(score, low, medium, high) ==
  IF score > 8500 THEN low ELSE IF score > 7000 THEN medium ELSE high

\* HumanizerEvaluator.evaluate_ai_detection_evasion; round(score, 2) keeps
\* every multiple of 0.5
evaluate_ai_detection_evasion(t) ==
  Bind(ApplyAiPatterns(t, 1, 10000, <<>>), LAMBDA r :
    Bind(ClampScore(r.score), LAMBDA score :
      [evasion_score |-> score,
       detection_risk |-> Verdict(score, "low", "medium", "high"),
       issues_found |-> r.issues,
       recommendation |->
         Verdict(score, "Excellent", "Good", "Needs improvement")]))

\* HumanizerEvaluator.compare_versions
compare_versions(original, humanized) ==
  Bind(evaluate_ai_detection_evasion(original), LAMBDA orig_detection :
    Bind(evaluate_ai_detection_evasion(humanized), LAMBDA human_detection :
      Bind(human_detection.evasion_score - orig_detection.evasion_score,
           LAMBDA improvement :
        [original_score |-> orig_detection.evasion_score,
         humanized_score |-> human_detection.evasion_score,
         improvement |-> improvement,
         original_risk |-> orig_detection.detection_risk,
         humanized_risk |-> human_detection.detection_risk,
         original_issues |-> Len(orig_detection.issues_found),
         humanized_issues |-> Len(human_detection.issues_found),
         recommendation |->
           IF improvement > 1500 THEN "Excellent humanization"
           ELSE IF improvement > 500 THEN "Good humanization"
           ELSE "Minimal improvement"])))

(***************************************************************************)
(* The evaluator called on texts put together from fragments that hold     *)
(* the seven patterns, and compare_versions called on such a text and the  *)
(* same text without its occurrences of "Furthermore,".                    *)
(***************************************************************************)
FurthermoreComma == <<"F","u","r","t","h","e","r","m","o","r","e",",">>

Fragments == {
    FurthermoreComma,
    <<"I","t"," ","i","s"," ","i","m","p","o","r","t","a","n","t"," ","t","o"," ","n","o","t","e"," ">>,
    <<"t","h","a","t","."," ","T","h","e"," ","u","s","e"," ","o","f"," ","r","o","b","u","s","t"," ">>,
    <<"S","o",",">>,
    <<" ","B","u","t",","," ","m","a","k","i","n","g"," ">>,
    <<"S","o",","," ","s","o",","," ","t","e","r","m"," ","m","o","r","e","o","v","e","r"," ","S","o",","," ","s","o",","," ","t","e","r","m"," ","m","o","r","e","o","v","e","r"," ","S","o",","," ","s","o",","," ","t","e","r","m"," ","m","o","r","e","o","v","e","r"," ","S","o",","," ","s","o",","," ","t","e","r","m"," ","m","o","r","e","o","v","e","r"," ","S","o",","," ","s","o",","," ","t","e","r","m"," ","m","o","r","e","o","v","e","r">> }

\* the most fragments in a text
MaxParts == 3

EvaluatorTexts ==
  {Join(parts, <<>>) : parts \in UNION {[1..k -> Fragments] : k \in 0..MaxParts}}

\* text.replace("Furthermore,", "")
WithoutFurthermore(t) == Sub(Lit(FurthermoreComma), FALSE, <<>>, t)

EvaluatorCalls ==
  {[method |-> "evaluate_ai_detection_evasion", text |-> t] :
     t \in EvaluatorTexts}
  \cup {[method |-> "compare_versions", original |-> t,
         humanized |-> WithoutFurthermore(t)] : t \in EvaluatorTexts}

InitEvaluator ==
  /\ NewHumanizer
  /\ previous = None
  /\ args \in EvaluatorCalls
  /\ ret = None

\* HumanizerEvaluator.evaluate_ai_detection_evasion(text)
EvaluateAiDetectionEvasion ==
  /\ ret = None
  /\ args.method = "evaluate_ai_detection_evasion"
  /\ ret' = [value |-> evaluate_ai_detection_evasion(args.text)]
  /\ UNCHANGED <<engine, humanizing, previous, args, threads>>

\* HumanizerEvaluator.compare_versions(original, humanized)
CompareVersions ==
  /\ ret = None
  /\ args.method = "compare_versions"
  /\ ret' = [value |-> compare_versions(args.original, args.humanized)]
  /\ UNCHANGED <<engine, humanizing, previous, args, threads>>

NextEvaluator ==
  \/ EvaluateAiDetectionEvasion
  \/ CompareVersions

SpecEvaluator == InitEvaluator /\ [][NextEvaluator]_vars

(***************************************************************************)
(* Two threads inside replace_synonyms_contextual on one engine.  Nothing  *)
(* in the method takes a lock, so the interpreter may switch threads       *)
(* between the membership test of line 328 and the append of line 342.     *)
(***************************************************************************)
\* the texts the threads pass to the method
ThreadTexts == {
    <<"W","e"," ","u","t","i","l","i","z","e"," ","r","o","b","u","s","t"," ","t","o","o","l","s",".">>,
    <<"R","o","b","u","s","t"," ","s","y","s","t","e","m","s"," ","u","t","i","l","i","z","e"," ","c","r","u","c","i","a","l"," ","t","o","o","l","s",".">> }

\* the config of a neutral text at intensity 1.0, lines 408-414
ThreadConfig ==
  _scale_config(get_config_for_tone("neutral", FALSE),
                EffectiveIntensity(100, FALSE))

\* lines 321-322: thread th calls the method and splits its text
ThreadEnter(th) ==
  /\ threads[th].pc = "idle"
  /\ \E t \in ThreadTexts :
       threads' = [threads EXCEPT ![th] =
                     [pc |-> "loop", words |-> Split(t), i |-> 1,
                      config |-> ThreadConfig, formality_level |-> "neutral",
                      text |-> t]]
  /\ UNCHANGED <<engine, humanizing, previous, args, ret>>

\* lines 324-329: thread th takes its next token, draws and tests recency
ThreadCheck(th) ==
  /\ threads[th].pc = "loop"
  /\ LET me == threads[th]
     IN IF me.i > Len(me.words)
        THEN /\ threads' = [threads EXCEPT ![th].pc = "join"]
             /\ rng' = rng
        ELSE \E word_clean \in {StripChars(Lower(me.words[me.i]), StripSet)} :
               IF ~InSynonyms(word_clean)
               THEN /\ threads' = [threads EXCEPT ![th].i = me.i + 1]
                    /\ rng' = rng
               ELSE /\ rng' = RngNext(rng)
                    /\ threads' =
                         IF ~DrawBelow(RngNext(rng),
                                       me.config.synonym_replacement)
                            \/ RecentlyUsed(word_clean, recently_used)
                         THEN [threads EXCEPT ![th].i = me.i + 1]
                         ELSE [threads EXCEPT ![th].pc = "replace"]
  /\ UNCHANGED <<engine, seed, pc, locals, trace, start_recently_used,
                 result, previous, args, ret>>

\* lines 331-342: thread th chooses the synonym, stores it and appends the key
ThreadReplace(th) ==
  /\ threads[th].pc = "replace"
  /\ LET me == threads[th]
     IN \E word_clean \in {StripChars(Lower(me.words[me.i]), StripSet)} :
          \E c \in {_choose_best_synonym(word_clean, SynonymsOf(word_clean),
                                         me.formality_level, recently_used,
                                         rng)} :
            /\ threads' =
                 [threads EXCEPT ![th].pc = "loop",
                                 ![th].i = me.i + 1,
                                 ![th].words[me.i] =
                                    ReplacedToken(me.words[me.i], c.syn)]
            /\ recently_used' = DequeAppend(recently_used, word_clean)
            /\ rng' = c.rng
  /\ UNCHANGED <<used_in_current_text, seed, pc, locals, trace,
                 start_recently_used, result, previous, args, ret>>

\* line 344: thread th returns the joined words
ThreadReturn(th) ==
  /\ threads[th].pc = "join"
  /\ threads' = [threads EXCEPT ![th].pc = "returned",
                                ![th].text = Join(threads[th].words, <<" ">>)]
  /\ UNCHANGED <<engine, humanizing, previous, args, ret>>

NextThreads ==
  \/ \E th \in Threads : ThreadEnter(th)
  \/ \E th \in Threads : ThreadCheck(th)
  \/ \E th \in Threads : ThreadReplace(th)
  \/ \E th \in Threads : ThreadReturn(th)

SpecThreads == Init /\ [][NextThreads]_vars

(***************************************************************************)
(* Direct calls of the methods of one new ModificationEngine.              *)
(***************************************************************************)
\* the tokens passed to replace_synonyms_contextual: a key of the synonym
\* map, in lower case or capitalized, between punctuation and brackets
TokenPrefixes == {<<>>, <<"(">>, <<".">>}

TokenCores == {<<"r","o","b","u","s","t">>, <<"U","t","i","l","i","z","e">>}

TokenSuffixes == {<<>>, <<".">>, <<")">>, <<")",".">>, <<"!","?">>}

EngineTokens ==
  {a \o b \o c : a \in TokenPrefixes, b \in TokenCores, c \in TokenSuffixes}

\* the sentences of the texts passed to reduce_the_repetition
EngineSentences == {<<"T","h","e"," ","a",".">>, <<"T","h","e"," ","T","h","e"," ","b","e","!">>, <<"N","o"," ","c","?">>}

\* the most sentences in such a text
MaxSentences == 6

EngineTexts ==
  {Join(parts, <<" ">>) :
     parts \in UNION {[1..k -> EngineSentences] : k \in 0..MaxSentences}}

\* the recency deques _choose_best_synonym is called with: empty, or
\* holding one of the candidates
RecentOf(synonyms) == {<<>>} \cup {<<synonyms[i]>> : i \in 1..Len(synonyms)}

\* the states of the generator
RngStates == {RngNext(r) : r \in 0..15}

EngineCalls ==
  {[method |-> "replace_synonyms_contextual", text |-> t, seed |-> s] :
     t \in EngineTokens, s \in Seeds}
  \cup UNION {{[method |-> "_choose_best_synonym", word |-> synonym_keys[i],
                 synonyms |-> synonym_lists[i], recently_used |-> ru,
                 seed |-> s] :
                  ru \in RecentOf(synonym_lists[i]), s \in RngStates} :
                i \in 1..Len(synonym_keys)}
  \cup {[method |-> "reduce_the_repetition", text |-> t] : t \in EngineTexts}

InitEngine ==
  /\ NewHumanizer
  /\ previous = None
  /\ args \in EngineCalls
  /\ ret = None

\* random.seed(seed); replace_synonyms_contextual(text, config, "neutral")
CallReplaceSynonyms ==
  /\ ret = None
  /\ args.method = "replace_synonyms_contextual"
  /\ \E res \in {replace_synonyms_contextual(args.text, ThreadConfig,
                     "neutral", recently_used, args.seed)} :
       /\ ret' = [value |-> res.text, words |-> res.words,
                  replaced |-> res.replaced]
       /\ recently_used' = res.recently_used
       /\ rng' = res.rng
  /\ UNCHANGED <<used_in_current_text, seed, pc, locals, trace,
                 start_recently_used, result, previous, args, threads>>

\* random.seed(seed); _choose_best_synonym(word, synonyms, "neutral") on an
\* engine whose deque is recently_used
CallChooseBestSynonym ==
  /\ ret = None
  /\ args.method = "_choose_best_synonym"
  /\ \E c \in {_choose_best_synonym(args.word, args.synonyms, "neutral",
                                    args.recently_used, args.seed)} :
       /\ ret' = [value |-> c.syn]
       /\ rng' = c.rng
  /\ recently_used' = args.recently_used
  /\ UNCHANGED <<used_in_current_text, seed, pc, locals, trace,
                 start_recently_used, result, previous, args, threads>>

\* reduce_the_repetition(text)
CallReduceTheRepetition ==
  /\ ret = None
  /\ args.method = "reduce_the_repetition"
  /\ ret' = [value |-> reduce_the_repetition(args.text)]
  /\ UNCHANGED <<engine, humanizing, previous, args, threads>>

NextEngine ==
  \/ CallReplaceSynonyms
  \/ CallChooseBestSynonym
  \/ CallReduceTheRepetition

SpecEngine == InitEngine /\ [][NextEngine]_vars

(***************************************************************************)
(* The properties of Humanizer.humanize.                                   *)
(***************************************************************************)
\* the except clause has run in the current call
ExceptRan == \E k \in 1..Len(trace) : trace[k].stage = "except"

\* the stages of the try block the current call has run, in the order run
StagesRan == SelectSeq(trace, LAMBDA e : e.stage # "except")

\* the current call has passed the guard and has its analysis
PassedGuard == pc # "idle" /\ "is_already_human" \in DOMAIN analysis

\* C1: humanize never propagates an exception to its caller: whenever a call
\* has come back it has returned a result, not raised, and if a stage of
\* the pipeline or the cleanup raised, the humanized text of that result is
\* the original input text.
NoExceptionPropagates ==
  pc = "returned" =>
    /\ "exception" \notin DOMAIN result
    /\ "humanized" \in DOMAIN result
    /\ ExceptRan => result.humanized = text /\ result.original = text

\* a call has returned after a stage raised, the stages before it having
\* changed the text, and the result carries the original text
FallbackAfterPartialWork ==
  /\ pc = "returned"
  /\ ExceptRan
  /\ Len(trace) > 1
  /\ trace[1].output # text
  /\ "humanized" \in DOMAIN result
  /\ result.humanized = text

\* the number of characters left when the whitespace at both ends is cut
TrimmedLength(t) ==
  LET kept == {k \in 1..Len(t) : t[k] \notin SpaceSet}
  IN IF kept = {} THEN 0
     ELSE (CHOOSE k \in kept : \A j \in kept : j <= k)
          - (CHOOSE k \in kept : \A j \in kept : k <= j) + 1

\* C2: for an input that is empty or whose trimmed length is below 10, at
\* any intensity, humanize returns at once: humanized is the input text,
\* modifications_applied is 0, and no transformation stage has run (nothing
\* in the trace, the recency buffer and the generator untouched).
ShortInputIsNoOp ==
  (pc # "idle" /\ (text = <<>> \/ TrimmedLength(text) < 10)) =>
    /\ pc = "returned"
    /\ trace = <<>>
    /\ result.humanized = text
    /\ result.modifications_applied = 0
    /\ recently_used = start_recently_used
    /\ rng = seed

\* a call has returned for a text of 10 characters or more whose trimmed
\* length is below 10
ShortAfterTrimReturned ==
  /\ pc = "returned"
  /\ Len(text) >= 10
  /\ TrimmedLength(text) < 10
  /\ result.humanized = text
  /\ result.modifications_applied = 0

\* the fields of the result object
ResultFields ==
  {"original", "humanized", "analysis", "modifications_applied",
   "quality_metrics", "was_already_human"}

\* C3: every result humanize returns, on every path (short-input guard,
\* normal completion, exception fallback), carries all of the fields
\* original, humanized, analysis, modifications_applied, quality_metrics and
\* was_already_human.
EveryResultHasAllFields ==
  pc = "returned" => ResultFields \subseteq DOMAIN result

\* C4: in every call that passes the guard replace_ai_phrases runs first and
\* the cleanup last; when the analysis is already-human nothing runs between
\* them, otherwise restructure_nominal_phrases, replace_synonyms_contextual,
\* reduce_the_repetition and add_human_imperfections run once each in that
\* order; each stage takes the previous stage's output (the first the
\* input text), and the call that completes returns the last output.
StagesRunInOrder ==
  PassedGuard =>
    LET expected ==
          IF analysis.is_already_human
          THEN <<"replace_ai_phrases", "_intelligent_cleanup">>
          ELSE <<"replace_ai_phrases", "restructure_nominal_phrases",
                 "replace_synonyms_contextual", "reduce_the_repetition",
                 "add_human_imperfections", "_intelligent_cleanup">>
    IN /\ Len(StagesRan) <= Len(expected)
       /\ \A k \in 1..Len(StagesRan) :
            /\ StagesRan[k].stage = expected[k]
            /\ StagesRan[k].input =
                 IF k = 1 THEN text ELSE StagesRan[k - 1].output
       /\ (pc \in {"_calculate_quality_metrics", "returned"} /\ ~ExceptRan) =>
            /\ Len(StagesRan) = Len(expected)
            /\ modified_text = StagesRan[Len(StagesRan)].output
       /\ (pc = "returned" /\ ~ExceptRan) =>
            result.humanized = StagesRan[Len(StagesRan)].output

\* a call on a text that is not already-human has returned after its six
\* stages, the first and the third of which changed the text they were given
SixStagesChained ==
  /\ pc = "returned"
  /\ PassedGuard
  /\ ~analysis.is_already_human
  /\ ~ExceptRan
  /\ Len(trace) = 6
  /\ trace[1].output # text
  /\ trace[3].input = trace[2].output
  /\ trace[3].output # trace[3].input
  /\ result.humanized = trace[6].output

\* C6: when the analysis is already-human the intensity that scales the
\* config is min(intensity * 0.15, 0.1); so for an intensity in [0,1] the
\* synonym-replacement probability of the call is 0.12 times that and never
\* above 0.12 * intensity * 0.15.
DampenedWhenAlreadyHuman ==
  (PassedGuard /\ analysis.is_already_human) =>
    /\ eff_intensity =
         IF intensity * 15 <= 1000 THEN intensity * 15 ELSE 1000
    /\ scaled_config.synonym_replacement = 12 * eff_intensity
    /\ intensity \in 0..100 =>
         scaled_config.synonym_replacement <= 12 * intensity * 15

\* an already-human text at intensity 1.0: the cap of 0.1 is what applies
DampenedAtTheCap ==
  /\ pc = "returned"
  /\ PassedGuard
  /\ analysis.is_already_human
  /\ intensity = 100
  /\ eff_intensity = 1000
  /\ scaled_config.synonym_replacement = 12000

(***************************************************************************)
(* Two seeded calls compared.                                              *)
(***************************************************************************)
\* the call before the last was made with the last call's arguments and seed
SameCallAsPrevious ==
  /\ pc = "returned"
  /\ "seed" \in DOMAIN previous
  /\ previous.text = text
  /\ previous.intensity = intensity
  /\ previous.seed = seed

\* C5 as stated: two calls of humanize with the same text and intensity,
\* each started with the generator seeded to the same value, on new
\* instances or one after the other on one instance, return the same
\* humanized text.
SameSeedSameOutput ==
  SameCallAsPrevious => result.humanized = previous.humanized

\* C5: two calls of humanize with the same text and intensity, each started
\* with the generator seeded to the same value and with the same contents of
\* the engine's recency buffer (as on two new instances), return the same
\* humanized text.
SameSeedSameBufferSameOutput ==
  (SameCallAsPrevious /\ previous.start_recently_used = start_recently_used)
    => result.humanized = previous.humanized

\* two calls with one seed, each on a new instance, that replaced synonyms
\* and returned the same text
TwoFreshCallsAgree ==
  /\ SameCallAsPrevious
  /\ previous.start_recently_used = start_recently_used
  /\ recently_used # start_recently_used
  /\ result.humanized = previous.humanized
  /\ result.humanized # text

\* sub occurs in s as a run of consecutive characters, in any letter case
ContainsIgnoreCase(s, sub) ==
  \E i \in 0..(Len(s) - Len(sub)) :
    Lower(SubSeq(s, i + 1, i + Len(sub))) = Lower(sub)

\* C17: for every input that passes the short-input guard and is processed
\* without the exception fallback, the humanized output contains neither
\* "Furthermore" nor "It is important to note that", in any letter case,
\* whatever the whitespace between the words of the input.
AiPhrasesAbsentFromOutput ==
  (pc = "returned" /\ PassedGuard /\ ~ExceptRan
     /\ "humanized" \in DOMAIN result) =>
    /\ ~ContainsIgnoreCase(result.humanized,
          <<"F","u","r","t","h","e","r","m","o","r","e">>)
    /\ ~ContainsIgnoreCase(result.humanized,
          <<"I","t"," ","i","s"," ","i","m","p","o","r","t","a","n","t"," ","t","o"," ","n","o","t","e"," ","t","h","a","t">>)

\* C21: when no stage raises, modifications_applied counts the stages that
\* ran, not the edits made: it is exactly 5 for every input that is not
\* already-human and exactly 1 for every already-human input above the
\* short-input guard, whatever the intensity and whether or not a stage
\* changed the text.
ModificationsCountStages ==
  (pc = "returned" /\ PassedGuard /\ ~ExceptRan
     /\ "modifications_applied" \in DOMAIN result) =>
    result.modifications_applied =
      IF analysis.is_already_human THEN 1 ELSE 5

\* a call on a text that is not already-human has returned 5 although one of
\* the five counted stages left the text it was given as it was
FiveCountedWithoutEdit ==
  /\ pc = "returned"
  /\ PassedGuard
  /\ ~analysis.is_already_human
  /\ ~ExceptRan
  /\ "modifications_applied" \in DOMAIN result
  /\ result.modifications_applied = 5
  /\ \E k \in 1..5 : trace[k].input = trace[k].output

(***************************************************************************)
(* The recency buffer.                                                     *)
(***************************************************************************)
\* the keys the current call has replaced, in the order replaced
ReplacedSoFar ==
  LET at == {k \in 1..Len(trace) :
               trace[k].stage = "replace_synonyms_contextual"}
  IN IF at = {} THEN <<>> ELSE trace[CHOOSE k \in at : TRUE].replaced

\* the last n entries of s
LastN(s, n) == IF Len(s) <= n THEN s ELSE SubSeq(s, Len(s) - n + 1, Len(s))

\* C10: after any sequence of calls on one engine the recency buffer holds
\* at most 50 entries; they are the most recently replaced keys in the order
\* replaced, the oldest evicted when a 51st is pushed: the buffer is the last
\* 50 of what it held when the call started followed by the keys the call
\* has replaced; and the reset at the start of a call removes none.
RecencyBufferIsBoundedFifo ==
  /\ Len(recently_used) <= 50
  /\ recently_used = LastN(start_recently_used \o ReplacedSoFar, 50)
  /\ ReplacedSoFar = <<>> => recently_used = start_recently_used

\* a call that started with a full buffer has replaced keys: the oldest
\* entries are gone and the buffer is still full
FullBufferEvicted ==
  /\ Len(start_recently_used) = 50
  /\ ReplacedSoFar # <<>>
  /\ Len(recently_used) = 50
  /\ recently_used # start_recently_used
  /\ recently_used[50] = ReplacedSoFar[Len(ReplacedSoFar)]

\* the synonym stage of the current call has run
SynonymStageRan ==
  \E k \in 1..Len(trace) : trace[k].stage = "replace_synonyms_contextual"

\* the record the synonym stage of the current call left in the trace
SynonymStage ==
  trace[CHOOSE k \in 1..Len(trace) :
          trace[k].stage = "replace_synonyms_contextual"]

\* the lookup key of a token
KeyOf(word) == StripChars(Lower(word), StripSet)

\* the lookup keys of the tokens of before that differ in after, in order
ChangedKeys(before, after) ==
  LET F[k \in 0..Len(before)] ==
        IF k = 0 THEN <<>>
        ELSE IF after[k] # before[k]
             THEN Append(F[k - 1], KeyOf(before[k]))
             ELSE F[k - 1]
  IN F[Len(before)]

\* C11: replace_synonyms_contextual changes a token of its list words only
\* when its lookup key is in the synonym map and is not among the
\* last 5 entries of the recency buffer at that moment (the buffer the call
\* started with followed by the keys replaced before it); every replacement
\* appends exactly that key, and an unchanged token appends nothing: the keys
\* appended are the keys of the changed tokens, in order.
OnlyFreshKeysReplaced ==
  SynonymStageRan =>
    LET before == Split(SynonymStage.input)
        after == SynonymStage.words
    IN /\ Len(after) = Len(before)
       /\ SynonymStage.output = Join(after, <<" ">>)
       /\ \E keys \in {ChangedKeys(before, after)} :
            /\ keys = SynonymStage.replaced
            /\ \A j \in 1..Len(keys) :
                 /\ InSynonyms(keys[j])
                 /\ ~InSeq(keys[j],
                           LastN(start_recently_used \o SubSeq(keys, 1, j - 1),
                                 5))
            /\ recently_used = LastN(start_recently_used \o keys, 50)

\* the synonym stage has replaced a token and left another one alone whose
\* key is in the synonym map and among the last 5 entries of the buffer
RecentKeySkipped ==
  /\ SynonymStageRan
  /\ SynonymStage.replaced # <<>>
  /\ LET before == Split(SynonymStage.input)
         after == SynonymStage.words
     IN \E i \in 1..Len(before) :
          /\ after[i] = before[i]
          /\ InSynonyms(KeyOf(before[i]))
          /\ InSeq(KeyOf(before[i]), LastN(recently_used, 5))
          /\ InSeq(KeyOf(before[i]), LastN(start_recently_used, 5))

\* C19: the exception fallback discards all partial work of the failed
\* call: when a stage has raised after replace_synonyms_contextual replaced
\* tokens, on return the recency buffer holds exactly what it held before
\* the call and the humanized text is the original.
FallbackRestoresBuffer ==
  (pc = "returned" /\ ExceptRan /\ ReplacedSoFar # <<>>) =>
    /\ recently_used = start_recently_used
    /\ result.humanized = text

\* C20: a humanize call changes the recency buffer only through
\* replace_synonyms_contextual: as long as that stage has not run in the
\* call (short-circuited input, already-human input, the stages before it)
\* the buffer is what it was before the call, and no step other than that
\* stage (the guard, the reset, the analysis, the other four stages, the
\* cleanup, the fallback, the return) changes it.
OnlySynonymStageTouchesBuffer ==
  /\ []((pc # "idle" /\ ~SynonymStageRan) =>
          recently_used = start_recently_used)
  /\ [][pc # "replace_synonyms_contextual" =>
          recently_used' = recently_used]_vars

\* a call on already-human input has returned on an engine whose buffer an
\* earlier call had filled, and the buffer is as that call found it
BufferKeptByHumanCall ==
  /\ pc = "returned"
  /\ analysis # None
  /\ analysis.is_already_human
  /\ ~ExceptRan
  /\ start_recently_used # <<>>
  /\ recently_used = start_recently_used

\* C18: with two calls running concurrently on one shared engine the
\* recency window is not corrupted: under every interleaving no key is
\* appended while it is already among the last 5 entries of the buffer, so
\* no entry of the buffer equals one of the 5 entries before it.
NoKeyAppendedWhileRecent ==
  \A j \in 1..Len(recently_used) :
    \A k \in 1..(j - 1) :
      j - k <= 5 => recently_used[k] # recently_used[j]

(***************************************************************************)
(* The properties of the methods of ModificationEngine called directly.    *)
(***************************************************************************)
\* the direct call of the given method has returned or raised
Returned(method) ==
  /\ "method" \in DOMAIN args
  /\ args.method = method
  /\ ret # None

\* the characters strip('.,!?;:()[]{}') removes from the end of a token
TrailingStripped(word) ==
  LET kept == {k \in 1..Len(word) : word[k] \notin StripSet}
  IN IF kept = {} THEN word
     ELSE SubSeq(word, (CHOOSE k \in kept : \A j \in kept : j <= k) + 1,
                 Len(word))

\* C23: when replace_synonyms_contextual replaces a token, the new token is
\* a synonym of its key, capitalized if the source token began with an
\* uppercase letter, followed by exactly the characters that were stripped
\* from the end of the token to form the key (closing brackets included),
\* in the same order, and nothing else.
ReplacementKeepsTrailingPunctuation ==
  Returned("replace_synonyms_contextual") =>
    LET before == Split(args.text)
    IN \A i \in 1..Len(before) :
         ret.words[i] # before[i] =>
           \E k \in 1..Len(SynonymsOf(KeyOf(before[i]))) :
             ret.words[i] =
               (IF IsUpper(before[i][1])
                THEN Capitalize(SynonymsOf(KeyOf(before[i]))[k])
                ELSE SynonymsOf(KeyOf(before[i]))[k])
               \o TrailingStripped(before[i])

\* twice the score of candidate i of the list: (15 - 0.5*len) + (10 if the
\* candidate is not in the recency buffer) + (10 - |index - len(list)//2|)
CandidateScore2(synonyms, i, recently) ==
  LET off == (i - 1) - (Len(synonyms) \div 2)
  IN (30 - Len(synonyms[i]))
     + (IF \E k \in 1..Len(recently) : recently[k] = synonyms[i]
        THEN 0 ELSE 20)
     + 2 * (10 - (IF off < 0 THEN -off ELSE off))

\* how many candidates come before candidate i when the list is sorted by
\* score, best first, equal scores in list order
CandidateRank(synonyms, i, recently) ==
  Cardinality({j \in 1..Len(synonyms) :
     \/ CandidateScore2(synonyms, j, recently)
          > CandidateScore2(synonyms, i, recently)
     \/ /\ CandidateScore2(synonyms, j, recently)
            = CandidateScore2(synonyms, i, recently)
        /\ j < i})

\* C24: _choose_best_synonym returns a member of the candidate list that is
\* among the three highest-scoring candidates; for a list of three or fewer
\* every candidate can be returned (some state of the generator returns
\* it), and for a longer list a candidate ranked fourth or lower is never
\* returned.
BestSynonymIsInTopThree ==
  Returned("_choose_best_synonym") =>
    /\ \E i \in 1..Len(args.synonyms) :
         /\ args.synonyms[i] = ret.value
         /\ CandidateRank(args.synonyms, i, args.recently_used) < 3
    /\ Len(args.synonyms) <= 3 =>
         \A i \in 1..Len(args.synonyms) :
           \E r \in RngStates :
             _choose_best_synonym(args.word, args.synonyms, "neutral",
                                  args.recently_used, r).syn
               = args.synonyms[i]

\* a list of four candidates, one of them in the recency buffer and ranked
\* fourth for it, and another one returned
RecentCandidateRankedOut ==
  /\ Returned("_choose_best_synonym")
  /\ Len(args.synonyms) = 4
  /\ \E i \in 1..4 :
       /\ args.recently_used = <<args.synonyms[i]>>
       /\ CandidateRank(args.synonyms, i, args.recently_used) = 3
       /\ CandidateRank(args.synonyms, i, <<>>) < 3
       /\ ret.value # args.synonyms[i]

\* the position of sentence k in its run of consecutive sentences that
\* begin with "The " (0 when it does not begin with it)
RunPosition(sentences, k) ==
  IF ~StartsWith(sentences[k], The_) THEN 0
  ELSE LET others == {j \in 1..k : ~StartsWith(sentences[j], The_)}
       IN k - (IF others = {} THEN 0
               ELSE CHOOSE j \in others : \A h \in others : h <= j)

\* C25: reduce_the_repetition rewrites only the 3rd consecutive occurrence:
\* within each maximal run of consecutive sentences beginning with "The ",
\* the k-th sentence has its leading "The " stripped and its new first
\* character upper-cased if and only if k is a multiple of 3; every other
\* sentence is emitted unchanged, in order, and no sentence is dropped.
EveryThirdTheIsStripped ==
  Returned("reduce_the_repetition") =>
    LET sentences == _split_sentences_advanced(args.text)
        emitted == [k \in 1..Len(sentences) |->
                      IF RunPosition(sentences, k) > 0
                         /\ RunPosition(sentences, k) % 3 = 0
                      THEN UpperFirst(SubSeq(sentences[k], 5,
                                             Len(sentences[k])))
                      ELSE sentences[k]]
    IN ret.value = Join(emitted, <<" ">>)

\* a run of six sentences beginning with "The " has lost the "The " of its
\* third and of its sixth sentence, and of no other
ThirdAndSixthStripped ==
  /\ Returned("reduce_the_repetition")
  /\ LET sentences == _split_sentences_advanced(args.text)
     IN /\ Len(sentences) = 6
        /\ \A k \in 1..6 : RunPosition(sentences, k) = k
        /\ Len(ret.value) = Len(args.text) - 8
        /\ ret.value # args.text

(***************************************************************************)
(* The properties of TextAnalyzer.                                         *)
(***************************************************************************)
\* C7: analyze never raises on a string: for the empty string and for a
\* whitespace-only string it returns a TextAnalysis whose counts, ratios
\* and scores are all 0.
AnalyzeNeverRaises ==
  Returned("analyze") =>
    /\ ~ret.raised
    /\ TrimmedLength(args.text) = 0 =>
         /\ ret.word_count = 0
         /\ ret.sentence_count = 0
         /\ ret.formality_score.n = 0
         /\ ret.technical_score.n = 0
         /\ ret.avg_sentence_length.n = 0
         /\ ret.unique_word_ratio.n = 0
         /\ ret.vocabulary_complexity.n = 0

\* the rules of the tone classification in their order, for the arguments
\* of the call; a score is the quotient n/d
ToneRules ==
  LET f == args.formality
      tc == args.technicality
  IN << [holds |-> f.n > 7 * f.d, tone |-> "formal"],
        [holds |-> tc.n > 6 * tc.d, tone |-> "technical"],
        [holds |-> args.casual_count > 5 \/ f.n < 3 * f.d, tone |-> "casual"],
        [holds |-> f.n > 5 * f.d /\ tc.n > 4 * tc.d, tone |-> "professional"],
        [holds |-> TRUE, tone |-> "neutral"] >>

\* C8: the tone classification is total and first-match: for every
\* (formality, technical, casual_count) the result is one of formal,
\* technical, casual, professional, neutral, the one of the first rule that
\* holds in the order formality>7, technical>6, casual_count>5 or
\* formality<3, formality>5 and technical>4, otherwise.
ToneIsFirstMatch ==
  Returned("_determine_tone") =>
    /\ ret.value \in {"formal", "technical", "casual", "professional",
                      "neutral"}
    /\ \E k \in 1..5 :
         /\ ToneRules[k].holds
         /\ \A j \in 1..(k - 1) : ~ToneRules[j].holds
         /\ ret.value = ToneRules[k].tone

\* C22: the tone classification of all-zero statistics (formality 0,
\* technical 0, casual count 0), which is what the empty string yields, is
\* "neutral": it falls through every earlier rule to the final else-branch.
AllZeroIsNeutral ==
  (Returned("_determine_tone") /\ args.formality.n = 0
     /\ args.technicality.n = 0 /\ args.casual_count = 0) =>
    ret.value = "neutral"

\* formality>7 and technical>6 both hold, and the first of them decides
FormalBeforeTechnical ==
  /\ Returned("_determine_tone")
  /\ ToneRules[1].holds
  /\ ToneRules[2].holds
  /\ ret.value = "formal"

\* the indicator patterns that match the text of the call, by position
IndicatorsFound ==
  {p \in 1..Len(human_indicators_patterns) :
     Search(human_indicators_patterns[p], FALSE, args.text)}

\* the signals besides the indicator patterns that hold for the call
OtherSignals ==
  {sig \in {"formality", "casual", "first_person"} :
     \/ sig = "formality" /\ args.formality_score.n < 4 * args.formality_score.d
     \/ sig = "casual" /\ args.casual_count >= 3
     \/ sig = "first_person" /\ Search(first_person_pattern, FALSE, args.text)}

\* C9 as stated: is_already_human is true iff at least 3 of exactly four
\* signals hold, the indicator patterns (emphasis punctuation, emoji,
\* contraction, first-person pronoun) counting together as one signal
\* beside formality<4, casual_count>=3 and the presence of I/my/our; the
\* score never exceeds 4.
ThreeOfFourSignals ==
  Returned("_is_already_human") =>
    /\ ret.value <=>
         (IF IndicatorsFound = {} THEN 0 ELSE 1) + Cardinality(OtherSignals)
           >= 3
    /\ ret.human_score <= 4

\* C9: is_already_human is true iff the score is at least 3, where each of
\* the five indicator patterns that matches (exclamation marks, a question
\* mark, an emoji, a contraction, one of my/our/we/us) counts one, and
\* formality<4, casual_count>=3 and the presence of I/my/our count one
\* each; the score never exceeds 8.
ThreeOfEightSignals ==
  Returned("_is_already_human") =>
    /\ ret.human_score =
         Cardinality(IndicatorsFound) + Cardinality(OtherSignals)
    /\ ret.value <=> ret.human_score >= 3
    /\ ret.human_score <= 8

\* is_already_human is true with indicator patterns alone making up the
\* score of 3 or more
HumanByIndicatorsAlone ==
  /\ Returned("_is_already_human")
  /\ ret.value
  /\ OtherSignals = {}
  /\ Cardinality(IndicatorsFound) >= 3

(***************************************************************************)
(* The properties of HumanizerEvaluator.                                   *)
(***************************************************************************)
\* the penalty of one occurrence of each of the seven patterns, in hundredths
PenaltyMagnitudes == <<400, 500, 200, 100, 300, 400, 50>>

RECURSIVE TotalPenalty(_, _)
\* the sum over the first k patterns of magnitude times occurrence count
TotalPenalty(t, k) ==
  IF k = 0 THEN 0
  ELSE PenaltyMagnitudes[k] * FindAll(ai_patterns[k].pat, TRUE, t)
       + TotalPenalty(t, k - 1)

\* C15: evaluate_ai_detection_evasion starts from 100 and lowers the score
\* by the magnitude of a pattern's penalty for each occurrence of it (4, 5,
\* 2, 1, 3, 4 and 0.5 for the seven patterns), then clamps: the returned
\* evasion_score lies in [0,100] and equals max(0, 100 - the sum of
\* magnitude times occurrence count).
EvasionScoreIsClampedSum ==
  Returned("evaluate_ai_detection_evasion") =>
    /\ ret.value.evasion_score \in 0..10000
    /\ ret.value.evasion_score =
         Max(0, 10000 - TotalPenalty(args.text, Len(PenaltyMagnitudes)))

\* a text whose penalties add up to more than 100 has been scored 0
ScoreClampedAtZero ==
  /\ Returned("evaluate_ai_detection_evasion")
  /\ TotalPenalty(args.text, Len(PenaltyMagnitudes)) > 10000
  /\ ret.value.evasion_score = 0
  /\ Len(ret.value.issues_found) >= 3

\* text.count("Furthermore,")
FurthermoreCount(t) == FindAll(Lit(FurthermoreComma), FALSE, t)

\* C16 as stated: every text with N >= 1 occurrences of "Furthermore," is
\* scored strictly lower than the same text with those occurrences removed.
FurthermoreLowersScore ==
  (Returned("compare_versions") /\ FurthermoreCount(args.original) >= 1) =>
    ret.value.original_score < ret.value.humanized_score

\* every occurrence of "Furthermore," in t starts t or follows a character
\* that is not a word character
FurthermoreIsWholeWord(t) ==
  \A j \in 0..(Len(t) - 1) :
    LitAt(FurthermoreComma, FALSE, t, j) => (j = 0 \/ ~IsWordChar(t[j]))

\* none of the seven patterns occurs more often in u than in t
NoNewOccurrence(t, u) ==
  \A k \in 1..Len(ai_patterns) :
    FindAll(ai_patterns[k].pat, TRUE, u) <= FindAll(ai_patterns[k].pat, TRUE, t)

\* C16: every text with N >= 1 occurrences of "Furthermore,", each a whole
\* word, is scored strictly lower than the same text with those occurrences
\* removed, when the text without them scores above 0 and holds no more
\* occurrences of any pattern than the text with them.
WholeWordFurthermoreLowersScore ==
  (/\ Returned("compare_versions")
   /\ FurthermoreCount(args.original) >= 1
   /\ FurthermoreIsWholeWord(args.original)
   /\ NoNewOccurrence(args.original, args.humanized)
   /\ ret.value.humanized_score > 0) =>
    ret.value.original_score < ret.value.humanized_score

\* a text with two whole-word occurrences among other patterns has been
\* compared with the text without them and scored 8 points lower
TwoOccurrencesScoredLower ==
  /\ Returned("compare_versions")
  /\ FurthermoreCount(args.original) = 2
  /\ FurthermoreIsWholeWord(args.original)
  /\ NoNewOccurrence(args.original, args.humanized)
  /\ ret.value.humanized_score \in 1..9999
  /\ ret.value.original_score = ret.value.humanized_score - 800

(***************************************************************************)
(* The properties of Humanizer._intelligent_cleanup.                       *)
(***************************************************************************)
\* s holds the two characters a, b next to each other
Adjacent(s, a, b) == \E i \in 1..(Len(s) - 1) : s[i] = a /\ s[i + 1] = b

\* the offsets of the letters of s that follow a sentence boundary: one of
\* . ! ? and then one or more whitespace characters
AfterBoundary(s) ==
  {j \in 3..Len(s) :
     /\ s[j] \notin SpaceSet
     /\ s[j - 1] \in SpaceSet
     /\ \E i \in 1..(j - 2) :
          /\ s[i] \in {".", "!", "?"}
          /\ \A k \in (i + 1)..(j - 1) : s[k] \in SpaceSet}

\* C12: for every input string the output of _intelligent_cleanup holds no
\* whitespace character immediately before one of . , ! ? ; :
NoSpaceBeforePunctuation ==
  Returned("_intelligent_cleanup") =>
    \A i \in 1..(Len(ret.value) - 1) :
      ~(ret.value[i] \in SpaceSet
        /\ ret.value[i + 1] \in {".", ",", "!", "?", ";", ":"})

\* C13: for every input string the output of _intelligent_cleanup holds
\* neither ',,' nor '..'.
NoDoubledPunctuation ==
  Returned("_intelligent_cleanup") =>
    /\ ~Adjacent(ret.value, ",", ",")
    /\ ~Adjacent(ret.value, ".", ".")

\* the cleanup was given doubled commas and doubled periods and has returned
\* a text that still holds a comma and a period
DoubledPunctuationCleaned ==
  /\ Returned("_intelligent_cleanup")
  /\ Adjacent(args.text, ",", ",")
  /\ Adjacent(args.text, ".", ".")
  /\ \E i \in 1..Len(ret.value) : ret.value[i] = ","
  /\ \E i \in 1..Len(ret.value) : ret.value[i] = "."

\* C14 as stated: in the output of _intelligent_cleanup every letter that
\* follows a sentence boundary (one of . ! ? and whitespace) is an
\* upper-case letter.
UppercaseAfterBoundary ==
  Returned("_intelligent_cleanup") =>
    \A j \in AfterBoundary(ret.value) :
      IsAlpha(ret.value[j]) => IsUpper(ret.value[j])

\* C14: in the output of _intelligent_cleanup every ASCII letter that
\* follows a sentence boundary (one of . ! ? and whitespace) is an
\* upper-case letter; a letter that has no upper-case form is left as it is.
AsciiUppercaseAfterBoundary ==
  Returned("_intelligent_cleanup") =>
    \A j \in AfterBoundary(ret.value) :
      ret.value[j] \in LowerSet \cup UpperSet => ret.value[j] \in UpperSet

\* the cleanup was given a lower-case ASCII letter after a sentence boundary
\* and has returned the boundary followed by the upper-case letter
LowerAfterBoundaryRaised ==
  /\ Returned("_intelligent_cleanup")
  /\ \E j \in AfterBoundary(args.text) : args.text[j] = "a"
  /\ \E j \in AfterBoundary(ret.value) : ret.value[j] = "A"

\* C26 as stated: for every input the output of _intelligent_cleanup never
\* begins with a lower-case letter.
NeverBeginsWithLowercase ==
  Returned("_intelligent_cleanup") =>
    (ret.value # <<>> => ~IsLower(ret.value[1]))

\* C26: for every input the output of _intelligent_cleanup never begins with
\* a lower-case ASCII letter, also when the input starts with whitespace; a
\* first letter that has no upper-case form is left as it is.
NeverBeginsWithLowercaseAscii ==
  Returned("_intelligent_cleanup") =>
    (ret.value # <<>> => ret.value[1] \notin LowerSet)

\* the cleanup was given whitespace and then a lower-case ASCII letter, and
\* has returned a text that begins with the upper-case letter
LeadingSpaceLetterRaised ==
  /\ Returned("_intelligent_cleanup")
  /\ Len(args.text) >= 2
  /\ args.text[1] = " "
  /\ args.text[2] = "a"
  /\ ret.value # <<>>
  /\ ret.value[1] = "A"

\* the protected acronyms written in capitals
CapitalAcronyms ==
  {[i \in 1..Len(a) |-> ToUpper(a[i])] : a \in protected_acronyms}

\* the offsets of s where acr stands as a whole word
AcronymAt(s, acr) ==
  {i \in 1..(Len(s) - Len(acr) + 1) :
     /\ SubSeq(s, i, i + Len(acr) - 1) = acr
     /\ (i = 1 \/ ~IsWordChar(s[i - 1]))
     /\ (i + Len(acr) > Len(s) \/ ~IsWordChar(s[i + Len(acr)]))}

\* offset i of s is mid-sentence: text stands before it, and the last
\* character of that text other than whitespace is none of . ! ?
MidSentence(s, i) ==
  \E j \in 1..(i - 1) :
    /\ s[j] \notin SpaceSet \cup {".", "!", "?"}
    /\ \A k \in (j + 1)..(i - 1) : s[k] \in SpaceSet

\* C27: the cleanup never changes the letter case of a protected acronym
\* written in capitals that stands mid-sentence, followed by punctuation or
\* not: each such occurrence of the input is an occurrence of the output.
ProtectedAcronymsKeepCase ==
  Returned("_intelligent_cleanup") =>
    \A acr \in CapitalAcronyms :
      Cardinality(AcronymAt(ret.value, acr))
        >= Cardinality({i \in AcronymAt(args.text, acr) :
                          MidSentence(args.text, i)})

\* ASCII '-', en dash, em dash
HyphensAndDashes == {"-", "U+2013", "U+2014"}

\* offset i of s lies inside an occurrence of a whitelisted compound word,
\* in any letter case
InsideCompound(s, i) ==
  \E k \in 1..Len(compound_words) :
    \E a \in 1..i :
      LET b == a + Len(compound_words[k]) - 1
      IN /\ i <= b
         /\ b <= Len(s)
         /\ Lower(SubSeq(s, a, b)) = compound_words[k]

\* the hyphens and dashes of s that stand outside the whitelisted compounds
OtherHyphens(s) ==
  {i \in 1..Len(s) : s[i] \in HyphensAndDashes /\ ~InsideCompound(s, i)}

\* C30 as stated: each hyphen or dash of the output of _intelligent_cleanup
\* lies inside a whitelisted compound word, and every other hyphen or dash
\* of the input has been replaced by ', ', so that an input with such a
\* hyphen gives an output that holds ', '.
OtherHyphensBecomeCommaSpace ==
  Returned("_intelligent_cleanup") =>
    /\ OtherHyphens(ret.value) = {}
    /\ OtherHyphens(args.text) # {} => Adjacent(ret.value, ",", " ")

\* C30: each hyphen or dash (ASCII '-', en dash, em dash) of the output of
\* _intelligent_cleanup lies inside an occurrence, in any letter case, of a
\* whitelisted compound word: every other hyphen or dash of the input is
\* gone from the output.
HyphensOnlyInsideCompounds ==
  Returned("_intelligent_cleanup") => OtherHyphens(ret.value) = {}

\* the cleanup was given a whitelisted compound and another hyphen, and has
\* returned the compound with its hyphen and a comma for the other one
CompoundKeptOtherHyphenReplaced ==
  /\ Returned("_intelligent_cleanup")
  /\ OtherHyphens(args.text) # {}
  /\ \E i \in 1..Len(args.text) :
       args.text[i] = "-" /\ InsideCompound(args.text, i)
  /\ \E j \in 1..Len(ret.value) :
       ret.value[j] = "-" /\ InsideCompound(ret.value, j)
  /\ \E j \in 1..Len(ret.value) : ret.value[j] = ","

\* C28: in every result of humanize that carries quality_metrics,
\* readability_maintained is true if and only if the length change is under
\* 10%: |len(humanized) - len(original)| / len(original) < 0.10, also when
\* the humanized text is empty.
ReadabilityIffUnderTenPercent ==
  (/\ pc = "returned"
   /\ "quality_metrics" \in DOMAIN result
   /\ result.original # <<>>) =>
    (result.quality_metrics.readability_maintained
       <=> Abs(Len(result.humanized) - Len(result.original)) * 10
             < Len(result.original))

\* the entries of the recency buffer from offset w on, six at most
WindowAt(w) ==
  {<<k, recently_used[k]>> :
     k \in w..(IF w + 5 <= Len(recently_used) THEN w + 5
               ELSE Len(recently_used))}

\* C29: when the engine is used by one call at a time, after any sequence
\* of humanize calls every window of 6 consecutive entries of the recency
\* buffer holds 6 distinct keys (two equal entries have at least 5 others
\* between them), also after evictions at the 50-entry bound.
SixConsecutiveEntriesDistinct ==
  \A w \in 1..Len(recently_used) :
    Cardinality({e[2] : e \in WindowAt(w)}) = Cardinality(WindowAt(w))

\* a call that started with a full buffer has evicted entries, and the
\* buffer holds a key twice, the two entries six or more apart
RepeatedKeyAfterEviction ==
  /\ Len(start_recently_used) = 50
  /\ ReplacedSoFar # <<>>
  /\ Len(recently_used) = 50
  /\ \E j \in 1..50 : \E k \in 1..50 :
       k - j >= 6 /\ recently_used[j] = recently_used[k]
====
